---- MODULE Spec2Model ----
(***************************************************************************)
(* Admin-request / role-promotion workflow of the church website:          *)
(*   - netlify/functions/delete-user.ts   (privileged deletion endpoint)   *)
(*   - src/integrations/firebase/auth.ts  (signUpWithEmail)                *)
(*   - src/pages/admin/Admins.tsx         (approve / reject handlers)      *)
(* The document stores (users, user_roles, admin_requests) and the auth    *)
(* provider are the shared state; every await of the source is one step.   *)
(***************************************************************************)
EXTENDS Integers, FiniteSets, Sequences, TLC

\* ------------------------------------------------------------------ bounds
NumUsers == 2
MaxInv == 2
\* documents ever added by the gallery page; records ever created through the
\* create functions of the content lists; largest eventDate / displayOrder
MaxDocs == 3
MaxRecords == 2
MaxKey == 2
\* snapshots one listener receives
MaxSnapshots == 3
MaxIds == 2

Uid == 1..NumUsers
Slots == 1..MaxInv
\* ids of content documents (addDoc assigns an id never used before)
DocId == 1..MaxDocs

\* ------------------------------------------------------- encoded constants
\* assignedBy: 'system' (auto-promotion); absence of a value
System == 0
None == 0 - 1
\* a bearer token that auth.verifyIdToken rejects (expired, forged, empty)
BadTok == 0
\* body without a usable userId field ({} or userId falsy)
NoUserId == 0

VARIABLES
    authUsers,       \* identities existing in the auth provider
    usedUids,        \* identities ever created (uids are never reused; their tokens may still verify)
    users,           \* ids of the documents of collection 'users' (profiles)
    user_roles,      \* collection 'user_roles': uid -> [role, assignedBy]
    admin_requests,  \* collection 'admin_requests': uid -> [status, reviewedBy]
    inv,             \* invocations of the delete-user handler, one per slot
    su,              \* signUpWithEmail calls in progress / finished, per new identity
    cl,              \* admin page handler in progress, per acting (signed-in) user
    concurrent,      \* FALSE: operations run one at a time; TRUE: they interleave at awaits
    adminTokens,     \* identities holding an ID token issued while they were admin or super_admin
    noAdminSeen,     \* history: sign-ups during which some state had no admin role assignment
    events,          \* collection 'events': set of documents
    videos,          \* collection 'videos'
    service_times,   \* collection 'service_times'
    gallery_albums,  \* collection 'gallery_albums'
    gallery_images,  \* collection 'gallery_images'
    docsAdded,       \* number of content documents added so far (the next id is docsAdded + 1)
    listed,          \* what the last list operation returned
    lastCreated,     \* the last create call, until another write follows it
    gd,              \* deleteGalleryAlbum calls in progress, per album id
    church_info,     \* collection 'church_info': document id -> churchName written (0: no document)
    patched,         \* history: ids of the church_info documents that updateDoc has patched
    ci,              \* updateChurchInfo calls in progress, per calling admin
    ctx,             \* FirebaseAuthProvider: the auth context of one browser
    sub,             \* usePendingRequests: the listener of one mounted Admins page
    bd               \* batchDeleteUsers: the call in progress

workflowVars == <<authUsers, usedUids, users, user_roles, admin_requests, inv, su, cl,
                  concurrent, noAdminSeen, adminTokens>>

contentVars == <<events, videos, service_times, gallery_albums, gallery_images,
                 docsAdded, listed, lastCreated, gd>>

infoVars == <<church_info, patched, ci>>

\* state of the admin's browser: the auth context, the Admins page listener
\* and the batch deletion it runs
pageVars == <<ctx, sub, bd>>

vars == <<workflowVars, contentVars, infoVars, pageVars>>

stores == <<authUsers, users, user_roles, admin_requests>>

\* ------------------------------------------------------------- documents
NoRole == [role |-> "none", assignedBy |-> None]
NoRequest == [status |-> "none", reviewedBy |-> None]

RoleValues == {"user", "admin", "super_admin"}
StatusValues == {"pending", "approved", "rejected"}

\* role === 'admin' || role === 'super_admin'
IsAdminRole(r) == r = "admin" \/ r = "super_admin"

AdminExists(roles) == \E u \in Uid : IsAdminRole(roles[u].role)

\* ------------------------------------------------- delete-user.ts: handler
Methods == {"OPTIONS", "GET", "POST"}

Headers ==
    {[kind |-> "none", tok |-> BadTok], [kind |-> "malformed", tok |-> BadTok]}
    \cup [kind : {"bearer"}, tok : Uid \cup {BadTok}]

Bodies ==
    {[kind |-> "absent", userId |-> NoUserId], [kind |-> "malformed", userId |-> NoUserId]}
    \cup [kind : {"json"}, userId : Uid \cup {NoUserId}]

\* mutant: the profile document is left out of the deletion
Collections_NoProfile == {"user_roles", "admin_requests"}

Collections == {"user_roles", "admin_requests", "users"}

IdleInv ==
    [pc |-> "idle", method |-> "POST", header |-> [kind |-> "none", tok |-> BadTok],
     body |-> [kind |-> "absent", userId |-> NoUserId],
     requestingUserId |-> None, role |-> "unread", pending |-> {}, status |-> 0,
     error |-> "",
     success |-> FALSE, deleted |-> {}, backendFailed |-> FALSE, caller |-> None]

Respond(r, st, err) == [r EXCEPT !.pc = "done", !.status = st, !.error = err]

\* !authHeader || !authHeader.startsWith('Bearer ')
TokenMissing(h) == h.kind # "bearer"

\* mutant: the Authorization header is examined before the method
handlerEntry_TokenFirst(r) ==
    IF r.method = "OPTIONS" THEN Respond(r, 200, "")
    ELSE IF TokenMissing(r.header) THEN Respond(r, 401, "Unauthorized - No token provided")
    ELSE IF r.method # "POST" THEN Respond(r, 405, "Method not allowed")
    ELSE [r EXCEPT !.pc = "verify"]

\* lines 28-53: preflight, method, Authorization header
handlerEntry(r) ==
    IF r.method = "OPTIONS" THEN Respond(r, 200, "")
    ELSE IF r.method # "POST" THEN Respond(r, 405, "Method not allowed")
    ELSE IF TokenMissing(r.header) THEN Respond(r, 401, "Unauthorized - No token provided")
    ELSE [r EXCEPT !.pc = "verify"]

\* auth.verifyIdToken(token): resolves to the uid the token was issued for, or rejects
verifyIdToken(tok) == IF tok \in Uid THEN tok ELSE None

\* lines 55-57 and the catch of lines 110-118
handlerVerified(r) ==
    IF verifyIdToken(r.header.tok) = None
    THEN Respond(r, 500, "verifyIdToken failed")
    ELSE [r EXCEPT !.pc = "role", !.requestingUserId = verifyIdToken(r.header.tok)]

\* mutant: only a role document saying 'user' is refused
handlerChecked_MissingRoleAllowed(r, role) ==
    LET q == [r EXCEPT !.role = role]
    IN  IF role = "user" THEN Respond(q, 403, "Only admins can delete users")
        ELSE IF q.body.kind = "malformed" THEN Respond(q, 500, "JSON.parse failed")
        ELSE IF q.body.userId = NoUserId THEN Respond(q, 400, "User ID is required")
        ELSE IF q.body.userId = q.requestingUserId
             THEN Respond(q, 400, "Cannot delete your own account")
        ELSE [q EXCEPT !.pc = "deleting", !.pending = Collections]

\* mutant: any existing role document counts as admin
handlerChecked_AnyRoleDoc(r, role) ==
    LET q == [r EXCEPT !.role = role]
    IN  IF role = "none" THEN Respond(q, 403, "Only admins can delete users")
        ELSE IF q.body.kind = "malformed" THEN Respond(q, 500, "JSON.parse failed")
        ELSE IF q.body.userId = NoUserId THEN Respond(q, 400, "User ID is required")
        ELSE IF q.body.userId = q.requestingUserId
             THEN Respond(q, 400, "Cannot delete your own account")
        ELSE [q EXCEPT !.pc = "deleting", !.pending = Collections]

\* mutant: no self-deletion check
handlerChecked_NoSelfCheck(r, role) ==
    LET q == [r EXCEPT !.role = role]
    IN  IF ~IsAdminRole(role) THEN Respond(q, 403, "Only admins can delete users")
        ELSE IF q.body.kind = "malformed" THEN Respond(q, 500, "JSON.parse failed")
        ELSE IF q.body.userId = NoUserId THEN Respond(q, 400, "User ID is required")
        ELSE [q EXCEPT !.pc = "deleting", !.pending = Collections]

\* mutant: the self-deletion answer is built but the deletes are still issued
handlerChecked_NoReturn(r, role) ==
    LET q == [r EXCEPT !.role = role]
    IN  IF ~IsAdminRole(role) THEN Respond(q, 403, "Only admins can delete users")
        ELSE IF q.body.kind = "malformed" THEN Respond(q, 500, "JSON.parse failed")
        ELSE IF q.body.userId = NoUserId THEN Respond(q, 400, "User ID is required")
        ELSE IF q.body.userId = q.requestingUserId
             THEN [Respond(q, 400, "Cannot delete your own account") EXCEPT
                      !.pending = Collections]
        ELSE [q EXCEPT !.pc = "deleting", !.pending = Collections]

\* lines 59-90, run once the role document has been read
handlerChecked(r, role) ==
    LET q == [r EXCEPT !.role = role]
    IN  IF ~IsAdminRole(role) THEN Respond(q, 403, "Only admins can delete users")
        ELSE IF q.body.kind = "malformed" THEN Respond(q, 500, "JSON.parse failed")
        ELSE IF q.body.userId = NoUserId THEN Respond(q, 400, "User ID is required")
        ELSE IF q.body.userId = q.requestingUserId
             THEN Respond(q, 400, "Cannot delete your own account")
        ELSE [q EXCEPT !.pc = "deleting", !.pending = Collections]

\* ------------------------------------------------------------ scheduling
InFlightInv(r) == r.pc # "idle"
InFlightSignUp(p) == p.pc # "none"
InFlightClient(c) == c.pc # "idle"

Quiescent ==
    /\ \A i \in Slots : ~InFlightInv(inv[i])
    /\ \A u \in Uid : ~InFlightSignUp(su[u])
    /\ \A u \in Uid : ~InFlightClient(cl[u])

\* a new operation may start: always when operations interleave, otherwise
\* only when no other operation is in progress
MayStart == concurrent \/ Quiescent

\* history of "an admin existed throughout the sign-up"
\* (the workflow touches neither the content collections nor the auth context)
Track ==
    /\ noAdminSeen' =
          {u \in Uid : /\ InFlightSignUp(su'[u])
                       /\ (u \in noAdminSeen \/ ~AdminExists(user_roles'))}
    /\ adminTokens' = adminTokens
    /\ UNCHANGED <<contentVars, infoVars, pageVars>>

\* function instances are interchangeable: a request takes the first idle one
FreeSlot(i) == inv[i].pc = "idle" /\ \A j \in Slots : j < i => inv[j].pc # "idle"

\* ------------------------------------------------------ handler: the steps
\* the function is invoked with an HTTP event (lines 20-53 run synchronously)
Invoke(i, m, h, b, who) ==
    inv' = [inv EXCEPT ![i] =
              handlerEntry([IdleInv EXCEPT !.method = m, !.header = h, !.body = b,
                                           !.caller = who])]

\* any client may send any request to the public endpoint; a bearer token is
\* either one issued to an identity that exists or existed, or one that fails
HttpRequest(i) ==
    /\ MayStart
    /\ FreeSlot(i)
    /\ \E m \in Methods, h \in Headers, b \in Bodies :
          /\ h.tok \in usedUids \cup {BadTok}
          /\ Invoke(i, m, h, b, None)
    /\ UNCHANGED <<authUsers, usedUids, users, user_roles, admin_requests, su, cl,
                   concurrent>>
    /\ Track

\* line 56: await auth.verifyIdToken(token)
HandlerVerify(i) ==
    /\ inv[i].pc = "verify"
    /\ inv' = [inv EXCEPT ![i] = handlerVerified(inv[i])]
    /\ UNCHANGED <<authUsers, usedUids, users, user_roles, admin_requests, su, cl,
                   concurrent>>
    /\ Track

\* line 60: await db.collection('user_roles').doc(requestingUserId).get(),
\* then lines 61-90; a failed read is caught at line 110
HandlerRole(i) ==
    /\ inv[i].pc = "role"
    /\ \E ok \in BOOLEAN :
          inv' = [inv EXCEPT ![i] =
                    IF ok THEN handlerChecked(inv[i], user_roles[inv[i].requestingUserId].role)
                    ELSE [Respond(inv[i], 500, "backend") EXCEPT !.backendFailed = TRUE]]
    /\ UNCHANGED <<authUsers, usedUids, users, user_roles, admin_requests, su, cl,
                   concurrent>>
    /\ Track

\* position of a delete in the array of lines 94-96
DeleteOrder(c) == IF c = "user_roles" THEN 1 ELSE IF c = "admin_requests" THEN 2 ELSE 3

\* the deletes of Promise.all settle in any order; when no other operation
\* runs in between, the order cannot be observed and the array order is taken
MaySettle(c, pending) ==
    concurrent \/ \A d \in pending : DeleteOrder(c) <= DeleteOrder(d)

\* mutant: a rejected document delete is ignored (Promise.allSettled) and the
\* handler goes on to the auth deletion
HandlerDeleteDoc_IgnoresFailure(i) ==
    /\ inv[i].pending # {}
    /\ \E c \in inv[i].pending, ok \in BOOLEAN :
          LET r == inv[i]
              t == r.body.userId
              r1 == [r EXCEPT !.pending = @ \ {c},
                              !.deleted = IF ok THEN @ \cup {c} ELSE @]
              r2 == IF r.pc # "deleting" THEN r1
                    ELSE IF r1.pending = {} THEN [r1 EXCEPT !.pc = "authdel"]
                    ELSE r1
          IN  /\ MaySettle(c, r.pending)
              /\ inv' = [inv EXCEPT ![i] = r2]
              /\ user_roles' = IF ok /\ c = "user_roles"
                               THEN [user_roles EXCEPT ![t] = NoRole] ELSE user_roles
              /\ admin_requests' = IF ok /\ c = "admin_requests"
                                   THEN [admin_requests EXCEPT ![t] = NoRequest]
                                   ELSE admin_requests
              /\ users' = IF ok /\ c = "users" THEN users \ {t} ELSE users
    /\ UNCHANGED <<authUsers, usedUids, su, cl, concurrent>>
    /\ Track

\* lines 93-97: the three deletes of Promise.all are in flight together; the
\* first rejection rejects Promise.all (-> line 110) while the other deletes
\* still settle
HandlerDeleteDoc(i) ==
    /\ inv[i].pending # {}
    /\ \E c \in inv[i].pending, ok \in BOOLEAN :
          LET r == inv[i]
              t == r.body.userId
              r1 == [r EXCEPT !.pending = @ \ {c},
                              !.deleted = IF ok THEN @ \cup {c} ELSE @]
              r2 == IF r.pc # "deleting" THEN r1
                    ELSE IF ~ok THEN [Respond(r1, 500, "backend") EXCEPT !.backendFailed = TRUE]
                    ELSE IF r1.pending = {} THEN [r1 EXCEPT !.pc = "authdel"]
                    ELSE r1
          IN  /\ MaySettle(c, r.pending)
              /\ inv' = [inv EXCEPT ![i] = r2]
              /\ user_roles' = IF ok /\ c = "user_roles"
                               THEN [user_roles EXCEPT ![t] = NoRole] ELSE user_roles
              /\ admin_requests' = IF ok /\ c = "admin_requests"
                                   THEN [admin_requests EXCEPT ![t] = NoRequest]
                                   ELSE admin_requests
              /\ users' = IF ok /\ c = "users" THEN users \ {t} ELSE users
    /\ UNCHANGED <<authUsers, usedUids, su, cl, concurrent>>
    /\ Track

\* the function instance is frozen after its response: deletes still
\* outstanding then are never sent
HandlerAbandon(i) ==
    /\ inv[i].pc = "done"
    /\ inv[i].pending # {}
    /\ inv' = [inv EXCEPT ![i].pending = {}]
    /\ UNCHANGED <<authUsers, usedUids, users, user_roles, admin_requests, su, cl,
                   concurrent>>
    /\ Track

\* mutant: a rejected auth.deleteUser is swallowed and the handler answers 200
HandlerAuthDelete_SwallowsFailure(i) ==
    /\ inv[i].pc = "authdel"
    /\ \E ok \in BOOLEAN :
          LET r == inv[i]
              t == r.body.userId
          IN  IF t \in authUsers /\ ok
              THEN /\ authUsers' = authUsers \ {t}
                   /\ inv' = [inv EXCEPT ![i] =
                                [Respond(r, 200, "") EXCEPT !.success = TRUE,
                                                            !.deleted = @ \cup {"auth"}]]
              ELSE /\ authUsers' = authUsers
                   /\ inv' = [inv EXCEPT ![i] =
                                [Respond(r, 200, "") EXCEPT !.success = TRUE]]
    /\ UNCHANGED <<usedUids, users, user_roles, admin_requests, su, cl, concurrent>>
    /\ Track

\* lines 99-109: await auth.deleteUser(userId) rejects for an unknown uid
\* (auth/user-not-found) or on a provider failure
HandlerAuthDelete(i) ==
    /\ inv[i].pc = "authdel"
    /\ \E ok \in BOOLEAN :
          LET r == inv[i]
              t == r.body.userId
          IN  IF t \in authUsers /\ ok
              THEN /\ authUsers' = authUsers \ {t}
                   /\ inv' = [inv EXCEPT ![i] =
                                [Respond(r, 200, "") EXCEPT !.success = TRUE,
                                                            !.deleted = @ \cup {"auth"}]]
              ELSE /\ authUsers' = authUsers
                   /\ inv' = [inv EXCEPT ![i] =
                                [Respond(r, 500, "backend") EXCEPT
                                    !.backendFailed = (t \in authUsers)]]
    /\ UNCHANGED <<usedUids, users, user_roles, admin_requests, su, cl, concurrent>>
    /\ Track

\* the response reaches a caller that is not one of the modelled pages
HandlerReturn(i) ==
    /\ inv[i].pc = "done"
    /\ inv[i].pending = {}
    /\ inv[i].caller = None
    /\ inv' = [inv EXCEPT ![i] = IdleInv]
    /\ UNCHANGED <<authUsers, usedUids, users, user_roles, admin_requests, su, cl,
                   concurrent>>
    /\ Track

\* ------------------------------------------------ client-side operations
IdleSignUp == [pc |-> "none", flow |-> "email", fresh |-> FALSE, displayName |-> FALSE]
IdleClient == [pc |-> "idle", kind |-> "none", target |-> None, reviewer |-> None,
               slot |-> None, result |-> "none", backendFailed |-> FALSE]

\* ------------------------------------------------ auth.ts: signUpWithEmail
\* the provider gives a new identity a uid never used before; uids are opaque,
\* so the next unused one is taken
NewUid(u) == u \notin usedUids /\ \A v \in Uid : v < u => v \in usedUids

\* mutant: the catch swallows the error and the sign-up returns the user
SignUpFails_ReturnsUser(u) == su' = [su EXCEPT ![u].pc = "ok", ![u].displayName = FALSE]

\* the sign-up returns {user: null, error} from the catch of lines 63-66
SignUpFails(u) == su' = [su EXCEPT ![u].pc = "error", ![u].displayName = FALSE]

\* lines 37-41: createUserWithEmailAndPassword creates the identity (a new
\* uid) and signs it in, or rejects and creates nothing
SignUpCreateUser(u) ==
    /\ MayStart
    /\ su[u].pc = "none"
    /\ NewUid(u)
    /\ \E ok \in BOOLEAN, name \in BOOLEAN :
          IF ok
          THEN /\ authUsers' = authUsers \cup {u}
               /\ usedUids' = usedUids \cup {u}
               /\ su' = [su EXCEPT ![u] =
                            [pc |-> IF name THEN "updateProfile" ELSE "createUserProfile",
                             flow |-> "email",
                             fresh |-> \A v \in Uid : user_roles[v] = NoRole,
                             displayName |-> name]]
          ELSE /\ SignUpFails(u)
               /\ UNCHANGED <<authUsers, usedUids>>
    /\ UNCHANGED <<users, user_roles, admin_requests, inv, cl, concurrent>>
    /\ Track

\* lines 44-46: updateProfile(displayName) on the auth identity
SignUpUpdateProfile(u) ==
    /\ su[u].pc = "updateProfile"
    /\ \E ok \in BOOLEAN :
          IF ok THEN su' = [su EXCEPT ![u].pc = "createUserProfile", ![u].displayName = FALSE]
          ELSE SignUpFails(u)
    /\ UNCHANGED <<authUsers, usedUids, users, user_roles, admin_requests, inv, cl,
                   concurrent>>
    /\ Track

\* line 49: createUserProfile, first write: the profile document
CreateUserProfileDoc(u) ==
    /\ su[u].pc = "createUserProfile"
    /\ \E ok \in BOOLEAN :
          IF ok
          THEN /\ users' = users \cup {u}
               /\ su' = [su EXCEPT ![u].pc = "ownRole"]
          ELSE /\ SignUpFails(u)
               /\ UNCHANGED users
    /\ UNCHANGED <<authUsers, usedUids, user_roles, admin_requests, inv, cl, concurrent>>
    /\ Track

\* createUserProfile: does the identity already hold a role?
CreateUserProfileOwnRole(u) ==
    /\ su[u].pc = "ownRole"
    /\ \E ok \in BOOLEAN :
          IF ok
          THEN su' = [su EXCEPT ![u].pc =
                        IF user_roles[u] = NoRole THEN "adminQuery" ELSE "isUserAdmin"]
          ELSE SignUpFails(u)
    /\ UNCHANGED <<authUsers, usedUids, users, user_roles, admin_requests, inv, cl,
                   concurrent>>
    /\ Track

\* createUserProfile: is there another admin or super_admin role assignment?
CreateUserProfileAdminQuery(u) ==
    /\ su[u].pc = "adminQuery"
    /\ \E ok \in BOOLEAN :
          IF ok
          THEN su' = [su EXCEPT ![u].pc =
                        IF AdminExists(user_roles) THEN "isUserAdmin" ELSE "promote"]
          ELSE SignUpFails(u)
    /\ UNCHANGED <<authUsers, usedUids, users, user_roles, admin_requests, inv, cl,
                   concurrent>>
    /\ Track

\* createUserProfile: auto-promotion, role super_admin attributed to 'system'
CreateUserProfilePromote(u) ==
    /\ su[u].pc = "promote"
    /\ \E ok \in BOOLEAN :
          IF ok
          THEN /\ user_roles' = [user_roles EXCEPT ![u] =
                                    [role |-> "super_admin", assignedBy |-> System]]
               /\ su' = [su EXCEPT ![u].pc = "isUserAdmin"]
          ELSE /\ SignUpFails(u)
               /\ UNCHANGED user_roles
    /\ UNCHANGED <<authUsers, usedUids, users, admin_requests, inv, cl, concurrent>>
    /\ Track

\* mutant: the admin request is created whatever isUserAdmin returned
signUpAfterIsAdmin_AlwaysRequest(isAdmin) == "createAdminRequest"

\* mutant: the test of isAdmin is inverted
signUpAfterIsAdmin_Inverted(isAdmin) == IF isAdmin THEN "createAdminRequest" ELSE "ok"

\* lines 56-62: if (!isAdmin) createAdminRequest, else return {user, error: null}
signUpAfterIsAdmin(isAdmin) == IF isAdmin THEN "ok" ELSE "createAdminRequest"

\* line 56: const isAdmin = await isUserAdmin(uid)
SignUpIsUserAdmin(u) ==
    /\ su[u].pc = "isUserAdmin"
    /\ su[u].flow = "email"
    /\ \E ok \in BOOLEAN :
          IF ok
          THEN su' = [su EXCEPT ![u].pc = signUpAfterIsAdmin(IsAdminRole(user_roles[u].role))]
          ELSE SignUpFails(u)
    /\ UNCHANGED <<authUsers, usedUids, users, user_roles, admin_requests, inv, cl,
                   concurrent>>
    /\ Track

\* line 58: await createAdminRequest(uid, email), then line 62
SignUpCreateAdminRequest(u) ==
    /\ su[u].pc = "createAdminRequest"
    /\ su[u].flow = "email"
    /\ \E ok \in BOOLEAN :
          IF ok
          THEN /\ admin_requests' = [admin_requests EXCEPT ![u] =
                                        [status |-> "pending", reviewedBy |-> None]]
               /\ su' = [su EXCEPT ![u].pc = "ok"]
          ELSE /\ SignUpFails(u)
               /\ UNCHANGED admin_requests
    /\ UNCHANGED <<authUsers, usedUids, users, user_roles, inv, cl, concurrent>>
    /\ Track

\* the promise of signUpWithEmail / handleGoogleRedirect has been consumed
SignUpReturn(u) ==
    /\ su[u].pc \in {"ok", "error"}
    /\ su' = [su EXCEPT ![u] = IdleSignUp]
    /\ UNCHANGED <<authUsers, usedUids, users, user_roles, admin_requests, inv, cl,
                   concurrent>>
    /\ Track

\* ------------------------------------------- auth.ts: handleGoogleRedirect
\* lines 122-124: getRedirectResult yields the identity that signed in with
\* Google, a returning one or one the provider has just created
GoogleRedirectResult(u) ==
    /\ MayStart
    /\ su[u].pc = "none"
    /\ u \in authUsers \/ NewUid(u)
    /\ \E ok \in BOOLEAN :
          IF ok
          THEN /\ authUsers' = authUsers \cup {u}
               /\ usedUids' = usedUids \cup {u}
               /\ su' = [su EXCEPT ![u] = [IdleSignUp EXCEPT !.pc = "getUserRole",
                                                              !.flow = "google"]]
          ELSE /\ su' = [su EXCEPT ![u] = [IdleSignUp EXCEPT !.pc = "error",
                                                              !.flow = "google"]]
               /\ UNCHANGED <<authUsers, usedUids>>
    /\ UNCHANGED <<users, user_roles, admin_requests, inv, cl, concurrent>>
    /\ Track

\* lines 126-127 and 150: the profile is created only when no role is found
GoogleGetUserRole(u) ==
    /\ su[u].pc = "getUserRole"
    /\ su[u].flow = "google"
    /\ \E ok \in BOOLEAN :
          IF ok
          THEN su' = [su EXCEPT ![u].pc =
                        IF user_roles[u] = NoRole THEN "createUserProfile" ELSE "ok"]
          ELSE SignUpFails(u)
    /\ UNCHANGED <<authUsers, usedUids, users, user_roles, admin_requests, inv, cl,
                   concurrent>>
    /\ Track

\* lines 137-138
GoogleIsUserAdmin(u) ==
    /\ su[u].pc = "isUserAdmin"
    /\ su[u].flow = "google"
    /\ \E ok \in BOOLEAN :
          IF ok
          THEN su' = [su EXCEPT ![u].pc =
                        IF IsAdminRole(user_roles[u].role) THEN "ok"
                        ELSE "getAdminRequestStatus"]
          ELSE SignUpFails(u)
    /\ UNCHANGED <<authUsers, usedUids, users, user_roles, admin_requests, inv, cl,
                   concurrent>>
    /\ Track

\* lines 139-140: a request is created only if none exists
GoogleGetAdminRequestStatus(u) ==
    /\ su[u].pc = "getAdminRequestStatus"
    /\ \E ok \in BOOLEAN :
          IF ok
          THEN su' = [su EXCEPT ![u].pc =
                        IF admin_requests[u] = NoRequest THEN "createAdminRequest" ELSE "ok"]
          ELSE SignUpFails(u)
    /\ UNCHANGED <<authUsers, usedUids, users, user_roles, admin_requests, inv, cl,
                   concurrent>>
    /\ Track

\* lines 141-150
GoogleCreateAdminRequest(u) ==
    /\ su[u].pc = "createAdminRequest"
    /\ su[u].flow = "google"
    /\ \E ok \in BOOLEAN :
          IF ok
          THEN /\ admin_requests' = [admin_requests EXCEPT ![u] =
                                        [status |-> "pending", reviewedBy |-> None]]
               /\ su' = [su EXCEPT ![u].pc = "ok"]
          ELSE /\ SignUpFails(u)
               /\ UNCHANGED admin_requests
    /\ UNCHANGED <<authUsers, usedUids, users, user_roles, inv, cl, concurrent>>
    /\ Track

\* ------------------------------------------------------- Admins.tsx (page)
\* the Admins page is open for y: y is signed in (user?.uid is set) and the
\* route guard and UI show the page to admins only
OnAdminsPage(y) ==
    /\ y \in authUsers
    /\ ~InFlightSignUp(su[y])
    /\ IsAdminRole(user_roles[y].role)

\* the pending list shows x's request
ListedPending(x) == admin_requests[x].status = "pending"

\* mutant: the target is passed as the reviewing identity
handleApproveRequest_WrongReviewer(y, x) ==
    [IdleClient EXCEPT !.pc = "setUserRole", !.kind = "approve", !.target = x,
                       !.reviewer = x]

\* lines 156-161: approveAdminRequest(requestId, userId, user.uid)
handleApproveRequest(y, x) ==
    [IdleClient EXCEPT !.pc = "setUserRole", !.kind = "approve", !.target = x,
                       !.reviewer = y]

ApproveStart(y) ==
    /\ MayStart
    /\ cl[y].pc = "idle"
    /\ OnAdminsPage(y)
    /\ \E x \in Uid :
          /\ ListedPending(x)
          /\ cl' = [cl EXCEPT ![y] = handleApproveRequest(y, x)]
    /\ UNCHANGED <<authUsers, usedUids, users, user_roles, admin_requests, inv, su,
                   concurrent>>
    /\ Track

\* the catch of lines 167-170 (and 197-200)
ClientFails(y) ==
    cl' = [cl EXCEPT ![y].pc = "settled", ![y].result = "error", ![y].backendFailed = TRUE]

\* approveAdminRequest, first write: role admin attributed to the reviewer
ApproveSetUserRole(y) ==
    /\ cl[y].pc = "setUserRole"
    /\ \E ok \in BOOLEAN :
          IF ok
          THEN /\ user_roles' = [user_roles EXCEPT ![cl[y].target] =
                                    [role |-> "admin", assignedBy |-> cl[y].reviewer]]
               /\ cl' = [cl EXCEPT ![y].pc = "updateAdminRequest"]
          ELSE /\ ClientFails(y)
               /\ UNCHANGED user_roles
    /\ UNCHANGED <<authUsers, usedUids, users, admin_requests, inv, su, concurrent>>
    /\ Track

\* approveAdminRequest, second write: the request becomes approved; updating
\* a document that no longer exists is rejected
ApproveUpdateAdminRequest(y) ==
    /\ cl[y].pc = "updateAdminRequest"
    /\ \E ok \in BOOLEAN :
          IF ok /\ admin_requests[cl[y].target] # NoRequest
          THEN /\ admin_requests' = [admin_requests EXCEPT ![cl[y].target] =
                                        [status |-> "approved", reviewedBy |-> cl[y].reviewer]]
               /\ cl' = [cl EXCEPT ![y].pc = "settled", ![y].result = "ok"]
          ELSE /\ ClientFails(y)
               /\ UNCHANGED admin_requests
    /\ UNCHANGED <<authUsers, usedUids, users, user_roles, inv, su, concurrent>>
    /\ Track

\* lines 180-186: the request built by handleRejectRequest
rejectFetch(x) ==
    [method |-> "POST", header |-> [kind |-> "none", tok |-> BadTok],
     body |-> [kind |-> "json", userId |-> x]]

\* helpers.ts lines 11-26: the request built by deleteUser for currentUser y
deleteUserFetch(y, x) ==
    [method |-> "POST", header |-> [kind |-> "bearer", tok |-> y],
     body |-> [kind |-> "json", userId |-> x]]

\* lines 176-186: handleRejectRequest up to the await of fetch
RejectStart(y) ==
    /\ MayStart
    /\ cl[y].pc = "idle"
    /\ OnAdminsPage(y)
    /\ \E x \in Uid, i \in Slots :
          /\ ListedPending(x)
          /\ FreeSlot(i)
          /\ Invoke(i, rejectFetch(x).method, rejectFetch(x).header, rejectFetch(x).body, y)
          /\ cl' = [cl EXCEPT ![y] =
                       [IdleClient EXCEPT !.pc = "fetch", !.kind = "reject", !.target = x,
                                          !.slot = i]]
    /\ UNCHANGED <<authUsers, usedUids, users, user_roles, admin_requests, su, concurrent>>
    /\ Track

\* helpers.ts lines 8-26: deleteUser(userId) by a signed-in user
DeleteUserStart(y) ==
    /\ MayStart
    /\ cl[y].pc = "idle"
    /\ y \in authUsers
    /\ ~InFlightSignUp(su[y])
    /\ \E x \in Uid, i \in Slots :
          /\ FreeSlot(i)
          /\ Invoke(i, deleteUserFetch(y, x).method, deleteUserFetch(y, x).header,
                    deleteUserFetch(y, x).body, y)
          /\ cl' = [cl EXCEPT ![y] =
                       [IdleClient EXCEPT !.pc = "fetch", !.kind = "deleteUser", !.target = x,
                                          !.slot = i]]
    /\ UNCHANGED <<authUsers, usedUids, users, user_roles, admin_requests, su, concurrent>>
    /\ Track

\* the admins table shows x: getAllAdmins returns the admin and super_admin
\* role assignments (Admins.tsx lines 61-71)
ListedAdmin(x) == IsAdminRole(user_roles[x].role)

\* Admins.tsx lines 131-137: the request built by handleRemoveAdmin
removeFetch(x) ==
    [method |-> "POST", header |-> [kind |-> "none", tok |-> BadTok],
     body |-> [kind |-> "json", userId |-> x]]

\* Admins.tsx lines 122-137: handleRemoveAdmin up to the await of fetch; for
\* the user's own row it shows an error and returns (lines 123-126)
handleRemoveAdmin(y, x, i) ==
    IF x = y
    THEN [IdleClient EXCEPT !.pc = "settled", !.kind = "remove", !.target = x,
                            !.result = "error"]
    ELSE [IdleClient EXCEPT !.pc = "fetch", !.kind = "remove", !.target = x, !.slot = i]

RemoveStart(y) ==
    /\ MayStart
    /\ cl[y].pc = "idle"
    /\ OnAdminsPage(y)
    /\ \E x \in Uid, i \in Slots :
          /\ ListedAdmin(x)
          /\ FreeSlot(i)
          /\ cl' = [cl EXCEPT ![y] = handleRemoveAdmin(y, x, i)]
          /\ IF cl'[y].pc = "fetch"
             THEN Invoke(i, removeFetch(x).method, removeFetch(x).header,
                         removeFetch(x).body, y)
             ELSE UNCHANGED inv
    /\ UNCHANGED <<authUsers, usedUids, users, user_roles, admin_requests, su, concurrent>>
    /\ Track

\* users.ts isUserAdmin(uid): the role assignment of uid is admin or super_admin
isUserAdmin(uid) == IsAdminRole(user_roles[uid].role)

\* admin.ts lines 29-32: deleteUserAccount(userId, requestingUserId) called by
\* the signed-in user y with its own uid as requestingUserId
DeleteAccountStart(y) ==
    /\ MayStart
    /\ cl[y].pc = "idle"
    /\ y \in authUsers
    /\ ~InFlightSignUp(su[y])
    /\ \E x \in Uid :
          cl' = [cl EXCEPT ![y] =
                    [IdleClient EXCEPT !.pc = "isUserAdmin", !.kind = "deleteAccount",
                                       !.target = x]]
    /\ UNCHANGED <<authUsers, usedUids, users, user_roles, admin_requests, inv, su,
                   concurrent>>
    /\ Track

\* admin.ts lines 34-43: the requester must be an admin and not the target
deleteUserAccountChecked(c, requester, isAdmin) ==
    IF ~isAdmin THEN [c EXCEPT !.pc = "settled", !.result = "error"]
    ELSE IF c.target = requester THEN [c EXCEPT !.pc = "settled", !.result = "error"]
    ELSE [c EXCEPT !.pc = "commit"]

\* admin.ts line 35: await isUserAdmin(requestingUserId), then lines 36-43;
\* a failed read is caught at line 70
DeleteAccountIsAdmin(y) ==
    /\ cl[y].pc = "isUserAdmin"
    /\ \E ok \in BOOLEAN :
          IF ok THEN cl' = [cl EXCEPT ![y] = deleteUserAccountChecked(cl[y], y, isUserAdmin(y))]
          ELSE ClientFails(y)
    /\ UNCHANGED <<authUsers, usedUids, users, user_roles, admin_requests, inv, su,
                   concurrent>>
    /\ Track

\* admin.ts lines 45-60: the three deletes are committed as one write batch;
\* the auth identity is not touched (lines 62-65)
DeleteAccountCommit(y) ==
    /\ cl[y].pc = "commit"
    /\ \E ok \in BOOLEAN :
          IF ok
          THEN /\ user_roles' = [user_roles EXCEPT ![cl[y].target] = NoRole]
               /\ admin_requests' = [admin_requests EXCEPT ![cl[y].target] = NoRequest]
               /\ users' = users \ {cl[y].target}
               /\ cl' = [cl EXCEPT ![y].pc = "settled", ![y].result = "ok"]
          ELSE /\ ClientFails(y)
               /\ UNCHANGED <<users, user_roles, admin_requests>>
    /\ UNCHANGED <<authUsers, usedUids, inv, su, concurrent>>
    /\ Track

\* Admins.tsx lines 188-203, helpers.ts lines 28-41: the response arrives;
\* !response.ok throws; a network failure rejects the fetch
ClientResponse(y) ==
    /\ cl[y].pc = "fetch"
    /\ inv[cl[y].slot].pc = "done"
    /\ inv[cl[y].slot].pending = {}
    /\ \E ok \in BOOLEAN :
          IF ok
          THEN cl' = [cl EXCEPT ![y].pc = "settled",
                                ![y].result = IF inv[cl[y].slot].status \in 200..299
                                              THEN "ok" ELSE "error",
                                ![y].backendFailed = inv[cl[y].slot].backendFailed]
          ELSE ClientFails(y)
    /\ inv' = [inv EXCEPT ![cl[y].slot] = IdleInv]
    /\ UNCHANGED <<authUsers, usedUids, users, user_roles, admin_requests, su, concurrent>>
    /\ Track

\* the finally blocks of lines 171-173 and 201-203: the page is ready again
ClientDone(y) ==
    /\ cl[y].pc = "settled"
    /\ cl' = [cl EXCEPT ![y] = IdleClient]
    /\ UNCHANGED <<authUsers, usedUids, users, user_roles, admin_requests, inv, su,
                   concurrent>>
    /\ Track

\* ------------------------------------------ content stores: initial state
\* ids of church_info documents: each concurrent caller can add at most one
InfoId == 1..NumUsers
NoDoc == 0
IdleInfo == [pc |-> "idle", id |-> NoDoc, data |-> NoDoc]

\* FirebaseAuthProvider at mount (useState of lines 27-29), nobody signed in
CtxAtMount ==
    [currentUser |-> None, user |-> None, isAdmin |-> FALSE, isLoading |-> TRUE,
     lookups |-> {}, lookupFailed |-> FALSE, signingOut |-> FALSE]

NoListing == [op |-> "none", result |-> <<>>]
NoCreate == [kind |-> "none", id |-> 0]
IdleDelete == [pc |-> "idle", snapshot |-> {}, pending |-> {}, alone |-> TRUE, before |-> {}]

\* usePendingRequests not mounted: no listener, nothing shown
NoSubscription ==
    [active |-> FALSE, first |-> FALSE, seen |-> {}, dirty |-> {},
     toasts |-> [u \in Uid |-> 0], invalidations |-> 0, snapshots |-> 0]

\* no batchDeleteUsers call in progress; before, wasAdmin, outcomes and failed
\* are history: the documents and the requester's standing when the call
\* began, the result of each deleteUserAccount call, and whether a backend
\* call rejected
IdleBatch ==
    [pc |-> "idle", userIds |-> <<>>, requestingUserId |-> None, idx |-> 0,
     deletedCount |-> 0, errors |-> <<>>, success |-> FALSE, call |-> IdleClient,
     before |-> [users |-> {}, user_roles |-> [u \in Uid |-> NoRole],
                 admin_requests |-> [u \in Uid |-> NoRequest]],
     wasAdmin |-> FALSE, outcomes |-> <<>>, failed |-> FALSE]

\* the initial content stores: no document, no call in progress
ContentEmpty ==
    /\ events = {}
    /\ videos = {}
    /\ service_times = {}
    /\ gallery_albums = {}
    /\ gallery_images = {}
    /\ docsAdded = 0
    /\ listed = NoListing
    /\ lastCreated = NoCreate
    /\ gd = [a \in DocId |-> IdleDelete]
    /\ church_info = [i \in InfoId |-> NoDoc]
    /\ patched = {}
    /\ ci = [c \in Uid |-> IdleInfo]
    /\ ctx = CtxAtMount
    /\ sub = NoSubscription
    /\ bd = IdleBatch

\* ---------------------------------------------- the workflow, from scratch
\* a fresh deployment: no identity, no document
Init ==
    /\ authUsers = {}
    /\ usedUids = {}
    /\ users = {}
    /\ user_roles = [u \in Uid |-> NoRole]
    /\ admin_requests = [u \in Uid |-> NoRequest]
    /\ inv = [i \in Slots |-> IdleInv]
    /\ su = [u \in Uid |-> IdleSignUp]
    /\ cl = [u \in Uid |-> IdleClient]
    /\ concurrent = FALSE
    /\ noAdminSeen = {}
    /\ adminTokens = {}
    /\ ContentEmpty

Next ==
    \/ \E u \in Uid : SignUpCreateUser(u)
    \/ \E u \in Uid : SignUpUpdateProfile(u)
    \/ \E u \in Uid : CreateUserProfileDoc(u)
    \/ \E u \in Uid : CreateUserProfileOwnRole(u)
    \/ \E u \in Uid : CreateUserProfileAdminQuery(u)
    \/ \E u \in Uid : CreateUserProfilePromote(u)
    \/ \E u \in Uid : SignUpIsUserAdmin(u)
    \/ \E u \in Uid : SignUpCreateAdminRequest(u)
    \/ \E u \in Uid : SignUpReturn(u)
    \/ \E u \in Uid : GoogleRedirectResult(u)
    \/ \E u \in Uid : GoogleGetUserRole(u)
    \/ \E u \in Uid : GoogleIsUserAdmin(u)
    \/ \E u \in Uid : GoogleGetAdminRequestStatus(u)
    \/ \E u \in Uid : GoogleCreateAdminRequest(u)
    \/ \E y \in Uid : ApproveStart(y)
    \/ \E y \in Uid : ApproveSetUserRole(y)
    \/ \E y \in Uid : ApproveUpdateAdminRequest(y)
    \/ \E y \in Uid : RejectStart(y)
    \/ \E y \in Uid : DeleteUserStart(y)
    \/ \E y \in Uid : RemoveStart(y)
    \/ \E y \in Uid : DeleteAccountStart(y)
    \/ \E y \in Uid : DeleteAccountIsAdmin(y)
    \/ \E y \in Uid : DeleteAccountCommit(y)
    \/ \E y \in Uid : ClientResponse(y)
    \/ \E y \in Uid : ClientDone(y)
    \/ \E i \in Slots : HandlerVerify(i)
    \/ \E i \in Slots : HandlerRole(i)
    \/ \E i \in Slots : HandlerDeleteDoc(i)
    \/ \E i \in Slots : HandlerAbandon(i)
    \/ \E i \in Slots : HandlerAuthDelete(i)

Spec == Init /\ [][Next]_vars

\* ------------------------------- sign-ups that overlap, from a fresh deployment
\* the browsers of different visitors run signUpWithEmail independently
InitSignUps ==
    /\ authUsers = {}
    /\ usedUids = {}
    /\ users = {}
    /\ user_roles = [u \in Uid |-> NoRole]
    /\ admin_requests = [u \in Uid |-> NoRequest]
    /\ inv = [i \in Slots |-> IdleInv]
    /\ su = [u \in Uid |-> IdleSignUp]
    /\ cl = [u \in Uid |-> IdleClient]
    /\ concurrent = TRUE
    /\ noAdminSeen = {}
    /\ adminTokens = {}
    /\ ContentEmpty

NextSignUps ==
    \E u \in Uid :
        \/ SignUpCreateUser(u)
        \/ SignUpUpdateProfile(u)
        \/ CreateUserProfileDoc(u)
        \/ CreateUserProfileOwnRole(u)
        \/ CreateUserProfileAdminQuery(u)
        \/ CreateUserProfilePromote(u)
        \/ SignUpIsUserAdmin(u)
        \/ SignUpCreateAdminRequest(u)
        \/ SignUpReturn(u)

SpecSignUps == InitSignUps /\ [][NextSignUps]_vars

\* ------------------------------------------------- seedAdmin.ts: seedAdmin
\* lines 20-38: signUpWithEmail has returned without error for the seeded
\* account; setUserRole(uid, 'super_admin', 'system') follows (its failure is
\* rethrown by the catch of lines 45-54)
SeedAdminSetUserRole(u) ==
    /\ su[u].pc = "ok"
    /\ su[u].flow = "email"
    /\ \E ok \in BOOLEAN :
          user_roles' = IF ok THEN [user_roles EXCEPT ![u] =
                                      [role |-> "super_admin", assignedBy |-> System]]
                        ELSE user_roles
    /\ su' = [su EXCEPT ![u] = IdleSignUp]
    /\ UNCHANGED <<authUsers, usedUids, users, admin_requests, inv, cl, concurrent>>
    /\ Track

\* the workflow with the seeding script available
NextSeeded ==
    \/ Next
    \/ \E u \in Uid : SeedAdminSetUserRole(u)

SpecSeeded == Init /\ [][NextSeeded]_vars

\* --------------------------------- the endpoint alone, over any store state
\* what the stores may hold for one identity (collection schemas)
Shapes(u) ==
    LET other == (u % NumUsers) + 1
        S(a, used, p, r, q) == [auth |-> a, used |-> used, profile |-> p, role |-> r, request |-> q]
    IN  { S(FALSE, FALSE, FALSE, NoRole, NoRequest),                       \* never signed up
          S(FALSE, TRUE, FALSE, NoRole, NoRequest),                        \* purged, token still verifies
          S(TRUE, TRUE, FALSE, NoRole, NoRequest),                         \* identity without documents
          S(TRUE, TRUE, TRUE, [role |-> "super_admin", assignedBy |-> System], NoRequest),
          S(TRUE, TRUE, TRUE, [role |-> "admin", assignedBy |-> other],
            [status |-> "approved", reviewedBy |-> other]),
          S(TRUE, TRUE, TRUE, NoRole, [status |-> "pending", reviewedBy |-> None]),
          S(TRUE, TRUE, TRUE, [role |-> "user", assignedBy |-> System], NoRequest) }

InitHandler ==
    \E sh \in [Uid -> UNION {Shapes(u) : u \in Uid}] :
        /\ \A u \in Uid : sh[u] \in Shapes(u)
        /\ authUsers = {u \in Uid : sh[u].auth}
        /\ usedUids = {u \in Uid : sh[u].used}
        /\ users = {u \in Uid : sh[u].profile}
        /\ user_roles = [u \in Uid |-> sh[u].role]
        /\ admin_requests = [u \in Uid |-> sh[u].request]
        /\ inv = [i \in Slots |-> IdleInv]
        /\ su = [u \in Uid |-> IdleSignUp]
        /\ cl = [u \in Uid |-> IdleClient]
        /\ concurrent = FALSE
        /\ noAdminSeen = {}
        /\ adminTokens = {}
        /\ ContentEmpty

\* helpers.ts line 16: a signed-in admin obtains an ID token; the token keeps
\* verifying whatever happens to the role record afterwards
GetIdToken(u) ==
    /\ u \in authUsers
    /\ IsAdminRole(user_roles[u].role)
    /\ u \notin adminTokens
    /\ adminTokens' = adminTokens \cup {u}
    /\ UNCHANGED <<authUsers, usedUids, users, user_roles, admin_requests, inv, su, cl,
                   concurrent, noAdminSeen>>
    /\ UNCHANGED <<contentVars, infoVars, pageVars>>

NextHandler ==
    \/ \E i \in Slots : HttpRequest(i)
    \/ \E i \in Slots : HandlerVerify(i)
    \/ \E i \in Slots : HandlerRole(i)
    \/ \E i \in Slots : HandlerDeleteDoc(i)
    \/ \E i \in Slots : HandlerAbandon(i)
    \/ \E i \in Slots : HandlerAuthDelete(i)
    \/ \E i \in Slots : HandlerReturn(i)
    \/ \E u \in Uid : GetIdToken(u)

SpecHandler == InitHandler /\ [][NextHandler]_vars

\* the endpoint with its invocations overlapping: the platform starts one
\* function instance per request and the instances share nothing; every
\* account starts as an administrator, the stores in which each caller passes
\* the role check
AdminShapes(u) == {s \in Shapes(u) : IsAdminRole(s.role.role)}

InitHandlerOverlapping ==
    \E sh \in [Uid -> UNION {AdminShapes(u) : u \in Uid}] :
        /\ \A u \in Uid : sh[u] \in AdminShapes(u)
        /\ authUsers = {u \in Uid : sh[u].auth}
        /\ usedUids = {u \in Uid : sh[u].used}
        /\ users = {u \in Uid : sh[u].profile}
        /\ user_roles = [u \in Uid |-> sh[u].role]
        /\ admin_requests = [u \in Uid |-> sh[u].request]
        /\ inv = [i \in Slots |-> IdleInv]
        /\ su = [u \in Uid |-> IdleSignUp]
        /\ cl = [u \in Uid |-> IdleClient]
        /\ concurrent = TRUE
        /\ noAdminSeen = {}
        /\ adminTokens = {}
        /\ ContentEmpty

\* a signed-in caller asks for the deletion of an account: a POST with the
\* caller's bearer token and a JSON body naming the account
DeletionRequest(i) ==
    /\ MayStart
    /\ FreeSlot(i)
    /\ \E caller \in usedUids, target \in Uid :
          Invoke(i, "POST", [kind |-> "bearer", tok |-> caller],
                 [kind |-> "json", userId |-> target], None)
    /\ UNCHANGED <<authUsers, usedUids, users, user_roles, admin_requests, su, cl,
                   concurrent>>
    /\ Track

NextHandlerOverlapping ==
    \/ \E i \in Slots : DeletionRequest(i)
    \/ \E i \in Slots : HandlerVerify(i)
    \/ \E i \in Slots : HandlerRole(i)
    \/ \E i \in Slots : HandlerDeleteDoc(i)
    \/ \E i \in Slots : HandlerAbandon(i)
    \/ \E i \in Slots : HandlerAuthDelete(i)
    \/ \E i \in Slots : HandlerReturn(i)

SpecHandlerOverlapping == InitHandlerOverlapping /\ [][NextHandlerOverlapping]_vars

\* ------------------------------------------------------ batchDeleteUsers
\* the arrays of user ids a caller may pass
IdLists == UNION {[1..n -> Uid] : n \in 0..MaxIds}

\* admin.ts lines 70-76: a rejected backend call is caught and reported
deleteUserAccountCaught(c) ==
    [c EXCEPT !.pc = "settled", !.result = "error", !.backendFailed = TRUE]

\* admin.ts line 90 and lines 99-103: the loop calls deleteUserAccount for the
\* next id, which runs up to its first await (line 35), or the loop is over
\* and the report is returned
batchLoop(b) ==
    IF b.idx <= Len(b.userIds)
    THEN [b EXCEPT !.pc = "call",
                   !.call = [IdleClient EXCEPT !.pc = "isUserAdmin", !.kind = "deleteAccount",
                                               !.target = b.userIds[b.idx]]]
    ELSE [b EXCEPT !.pc = "done", !.success = (Len(b.errors) = 0), !.call = IdleClient]

\* mutant: the loop stops at the first failed deletion
batchCounted_StopsAtFailure(b, c) ==
    IF c.result = "ok"
    THEN batchLoop([b EXCEPT !.deletedCount = @ + 1, !.outcomes = Append(@, TRUE),
                             !.idx = @ + 1, !.failed = @ \/ c.backendFailed])
    ELSE batchLoop([b EXCEPT !.errors = Append(@, b.userIds[b.idx]),
                             !.outcomes = Append(@, FALSE),
                             !.idx = Len(b.userIds) + 1, !.failed = @ \/ c.backendFailed])

\* admin.ts lines 91-96: the result of one deleteUserAccount call is counted
\* and the loop goes on
batchCounted(b, c) ==
    IF c.result = "ok"
    THEN batchLoop([b EXCEPT !.deletedCount = @ + 1, !.outcomes = Append(@, TRUE),
                             !.idx = @ + 1, !.failed = @ \/ c.backendFailed])
    ELSE batchLoop([b EXCEPT !.errors = Append(@, b.userIds[b.idx]),
                             !.outcomes = Append(@, FALSE),
                             !.idx = @ + 1, !.failed = @ \/ c.backendFailed])

\* admin.ts lines 83-90: batchDeleteUsers(userIds, requestingUserId) is called
BatchStart ==
    /\ bd.pc = "idle"
    /\ \E ids \in IdLists, r \in Uid :
          bd' = batchLoop([IdleBatch EXCEPT
                              !.userIds = ids, !.requestingUserId = r, !.idx = 1,
                              !.before = [users |-> users, user_roles |-> user_roles,
                                          admin_requests |-> admin_requests],
                              !.wasAdmin = isUserAdmin(r)])
    /\ UNCHANGED <<workflowVars, contentVars, infoVars, ctx, sub>>

\* admin.ts line 35 inside the loop: await isUserAdmin(requestingUserId), then
\* lines 36-43
BatchIsAdmin ==
    /\ bd.pc = "call"
    /\ bd.call.pc = "isUserAdmin"
    /\ \E ok \in BOOLEAN :
          LET c == IF ok
                   THEN deleteUserAccountChecked(bd.call, bd.requestingUserId,
                                                 isUserAdmin(bd.requestingUserId))
                   ELSE deleteUserAccountCaught(bd.call)
          IN  bd' = IF c.pc = "settled" THEN batchCounted(bd, c) ELSE [bd EXCEPT !.call = c]
    /\ UNCHANGED <<workflowVars, contentVars, infoVars, ctx, sub>>

\* admin.ts lines 45-60 inside the loop: await batch.commit(), then lines 67-69
BatchCommit ==
    /\ bd.pc = "call"
    /\ bd.call.pc = "commit"
    /\ \E ok \in BOOLEAN :
          IF ok
          THEN /\ user_roles' = [user_roles EXCEPT ![bd.call.target] = NoRole]
               /\ admin_requests' = [admin_requests EXCEPT ![bd.call.target] = NoRequest]
               /\ users' = users \ {bd.call.target}
               /\ bd' = batchCounted(bd, [bd.call EXCEPT !.pc = "settled", !.result = "ok"])
          ELSE /\ bd' = batchCounted(bd, deleteUserAccountCaught(bd.call))
               /\ UNCHANGED <<users, user_roles, admin_requests>>
    /\ noAdminSeen' =
          {u \in Uid : /\ InFlightSignUp(su[u])
                       /\ (u \in noAdminSeen \/ ~AdminExists(user_roles'))}
    /\ UNCHANGED <<authUsers, usedUids, inv, su, cl, concurrent, adminTokens>>
    /\ UNCHANGED <<contentVars, infoVars, ctx, sub>>

\* the caller has consumed the report
BatchReturn ==
    /\ bd.pc = "done"
    /\ bd' = IdleBatch
    /\ UNCHANGED <<workflowVars, contentVars, infoVars, ctx, sub>>

NextBatch ==
    \/ BatchStart
    \/ BatchIsAdmin
    \/ BatchCommit
    \/ BatchReturn

SpecBatch == InitHandler /\ [][NextBatch]_vars

TypeOK ==
    /\ authUsers \subseteq usedUids
    /\ usedUids \subseteq Uid
    /\ users \subseteq Uid
    /\ \A u \in Uid : user_roles[u].role \in RoleValues \cup {"none"}
    /\ \A u \in Uid : admin_requests[u].status \in StatusValues \cup {"none"}
    /\ \A i \in Slots : inv[i].status \in {0, 200, 400, 401, 403, 405, 500}

\* ------------------------------------- firestore/church.ts: content stores
\* (src/unnamed/part_002 lines 112-546 is the copy of church.ts that sorts in
\* the client; both copies are modelled where they differ)
\* values of the fields the callers supply
EventDates == {k * 500 : k \in 1..MaxKey}
DisplayOrders == 0..(MaxKey - 1)
YoutubeIds == {"", "dQw4"}
ThumbnailUrls == {"absent", "custom"}

\* Timestamp.fromDate(date): whole seconds and nanoseconds of a millisecond instant
fromDate(ms) == [seconds |-> ms \div 1000, nanoseconds |-> (ms % 1000) * 1000000]

\* timestamp.toDate().getTime()
toMillis(ts) == ts.seconds * 1000 + (ts.nanoseconds \div 1000000)

\* serverTimestamp() fields the create functions add
BothStamps == {"createdAt", "updatedAt"}
CreatedStamp == {"createdAt"}

\* createEvent: the document addDoc writes for {...event, createdAt, updatedAt}
createEvent(id, event) ==
    [id |-> id, isActive |-> event.isActive, eventDate |-> fromDate(event.eventDate),
     stamps |-> BothStamps]

\* createVideo (part_002): thumbnailUrl is computed from youtubeVideoId and
\* written after the spread of the supplied fields; "undefined" when the
\* id is empty
createVideo(id, video) ==
    [id |-> id, isActive |-> video.isActive, displayOrder |-> video.displayOrder,
     youtubeVideoId |-> video.youtubeVideoId,
     thumbnailUrl |-> IF video.youtubeVideoId # "" THEN "youtube" ELSE "undefined",
     stamps |-> BothStamps]

\* createServiceTime: {...serviceTime, createdAt}
createServiceTime(id, serviceTime) ==
    [id |-> id, isActive |-> serviceTime.isActive, displayOrder |-> serviceTime.displayOrder,
     stamps |-> CreatedStamp]

\* createGalleryAlbum: {...album, createdAt, updatedAt}
createGalleryAlbum(id, album) ==
    [id |-> id, isActive |-> album.isActive, displayOrder |-> album.displayOrder,
     stamps |-> BothStamps]

\* createGalleryImage: {...image, createdAt}
createGalleryImage(id, image) ==
    [id |-> id, albumId |-> image.albumId, stamps |-> CreatedStamp]

\* addDoc assigns the new document an id never used before
NextId == docsAdded + 1

\* a create call: the document is added, or addDoc rejects and nothing changes
Added(kind, supplied, ok) ==
    /\ docsAdded' = IF ok THEN NextId ELSE docsAdded
    /\ lastCreated' = IF ok THEN [kind |-> kind, id |-> NextId, supplied |-> supplied]
                      ELSE NoCreate
    /\ listed' = NoListing

\* a deleteGalleryAlbum call in progress has seen another operation run
Disturbed == [a \in DocId |-> IF gd[a].pc = "idle" THEN gd[a] ELSE [gd[a] EXCEPT !.alone = FALSE]]

CreateEvent ==
    /\ docsAdded < MaxRecords
    /\ \E ok \in BOOLEAN, event \in [isActive : BOOLEAN, eventDate : EventDates] :
          /\ events' = IF ok THEN events \cup {createEvent(NextId, event)} ELSE events
          /\ Added("events", event, ok)
    /\ UNCHANGED <<videos, service_times, gallery_albums, gallery_images, gd>>
    /\ UNCHANGED <<workflowVars, infoVars, pageVars>>

\* addDoc rejects a document holding an undefined field value
CreateVideo ==
    /\ docsAdded < MaxRecords
    /\ \E ok \in BOOLEAN,
          video \in [isActive : BOOLEAN, displayOrder : DisplayOrders,
                     youtubeVideoId : YoutubeIds, thumbnailUrl : ThumbnailUrls] :
          LET stored == ok /\ createVideo(NextId, video).thumbnailUrl # "undefined"
          IN  /\ videos' = IF stored THEN videos \cup {createVideo(NextId, video)} ELSE videos
              /\ Added("videos", video, stored)
    /\ UNCHANGED <<events, service_times, gallery_albums, gallery_images, gd>>
    /\ UNCHANGED <<workflowVars, infoVars, pageVars>>

CreateServiceTime ==
    /\ docsAdded < MaxRecords
    /\ \E ok \in BOOLEAN, serviceTime \in [isActive : BOOLEAN, displayOrder : DisplayOrders] :
          /\ service_times' = IF ok THEN service_times \cup {createServiceTime(NextId, serviceTime)}
                              ELSE service_times
          /\ Added("service_times", serviceTime, ok)
    /\ UNCHANGED <<events, videos, gallery_albums, gallery_images, gd>>
    /\ UNCHANGED <<workflowVars, infoVars, pageVars>>

CreateGalleryAlbum ==
    /\ docsAdded < MaxRecords
    /\ \E ok \in BOOLEAN, album \in [isActive : BOOLEAN, displayOrder : DisplayOrders] :
          /\ gallery_albums' = IF ok THEN gallery_albums \cup {createGalleryAlbum(NextId, album)}
                               ELSE gallery_albums
          /\ Added("gallery_albums", album, ok)
    /\ gd' = Disturbed
    /\ UNCHANGED <<events, videos, service_times, gallery_images>>
    /\ UNCHANGED <<workflowVars, infoVars, pageVars>>

\* Gallery.tsx lines 90-99: the page creates an album active, with displayOrder 0
CreateAlbumMutation ==
    /\ docsAdded < MaxDocs
    /\ \E ok \in BOOLEAN :
          LET album == [isActive |-> TRUE, displayOrder |-> 0]
          IN  /\ gallery_albums' = IF ok THEN gallery_albums
                                              \cup {createGalleryAlbum(NextId, album)}
                                   ELSE gallery_albums
              /\ Added("gallery_albums", album, ok)
    /\ gd' = Disturbed
    /\ UNCHANGED <<events, videos, service_times, gallery_images>>
    /\ UNCHANGED <<workflowVars, infoVars, pageVars>>

\* every deleteGalleryAlbum call in progress other than that of album a has
\* seen another operation run
DisturbedBut(a) ==
    [b \in DocId |-> IF b = a \/ gd[b].pc = "idle" THEN gd[b] ELSE [gd[b] EXCEPT !.alone = FALSE]]

\* createGalleryImage for an album that exists when the call is made
CreateGalleryImage ==
    /\ docsAdded < MaxDocs
    /\ \E ok \in BOOLEAN, a \in {d.id : d \in gallery_albums} :
          /\ gallery_images' = IF ok THEN gallery_images
                                          \cup {createGalleryImage(NextId, [albumId |-> a])}
                               ELSE gallery_images
          /\ Added("gallery_images", [albumId |-> a], ok)
    /\ gd' = Disturbed
    /\ UNCHANGED <<events, videos, service_times, gallery_albums>>
    /\ UNCHANGED <<workflowVars, infoVars, pageVars>>

\* deleteGalleryImage(imageId)
DeleteGalleryImage ==
    /\ \E ok \in BOOLEAN, d \in gallery_images :
          gallery_images' = IF ok THEN gallery_images \ {d} ELSE gallery_images
    /\ gd' = Disturbed
    /\ lastCreated' = NoCreate
    /\ listed' = NoListing
    /\ UNCHANGED <<events, videos, service_times, gallery_albums, docsAdded>>
    /\ UNCHANGED <<workflowVars, infoVars, pageVars>>

\* mutant: the query of deleteGalleryAlbum without its where clause
childImages_NoWhere(a) == {d.id : d \in gallery_images}

\* deleteGalleryAlbum: query(imagesRef, where('albumId', '==', albumId))
childImages(a) == {d.id : d \in {e \in gallery_images : e.albumId = a}}

\* deleteGalleryAlbum(albumId) is called for an album the page lists, or for
\* the id of a deleted album that images still reference
DeleteAlbumStart(a) ==
    /\ a \in {d.id : d \in gallery_albums} \cup {d.albumId : d \in gallery_images}
    /\ gd[a].pc = "idle"
    /\ gd' = [DisturbedBut(a) EXCEPT ![a] =
                 [IdleDelete EXCEPT !.pc = "query", !.before = gallery_images]]
    /\ UNCHANGED <<events, videos, service_times, gallery_albums, gallery_images,
                   docsAdded, listed, lastCreated>>
    /\ UNCHANGED <<workflowVars, infoVars, pageVars>>

\* await getDocs(q): the snapshot of the child images; one deleteDoc per
\* snapshot document is then started (snapshot.docs.map)
DeleteAlbumQuery(a) ==
    /\ gd[a].pc = "query"
    /\ \E ok \in BOOLEAN :
          gd' = [DisturbedBut(a) EXCEPT ![a] =
                    IF ~ok THEN [gd[a] EXCEPT !.pc = "error"]
                    ELSE [gd[a] EXCEPT !.snapshot = childImages(a),
                                       !.pending = childImages(a),
                                       !.pc = IF childImages(a) = {} THEN "album" ELSE "images"]]
    /\ UNCHANGED <<events, videos, service_times, gallery_albums, gallery_images,
                   docsAdded, listed, lastCreated>>
    /\ UNCHANGED <<workflowVars, infoVars, pageVars>>

\* await Promise.all(deletePromises): the deletes settle in any order; the
\* first rejection rejects deleteGalleryAlbum while the other deletes still settle
DeleteAlbumImage(a) ==
    /\ gd[a].pending # {}
    /\ \E i \in gd[a].pending, ok \in BOOLEAN :
          LET g1 == [gd[a] EXCEPT !.pending = @ \ {i}]
              g2 == IF g1.pc # "images" THEN g1
                    ELSE IF ~ok THEN [g1 EXCEPT !.pc = "error"]
                    ELSE IF g1.pending = {} THEN [g1 EXCEPT !.pc = "album"]
                    ELSE g1
          IN  /\ gd' = [DisturbedBut(a) EXCEPT ![a] = g2]
              /\ gallery_images' = IF ok THEN {d \in gallery_images : d.id # i}
                                   ELSE gallery_images
    /\ lastCreated' = NoCreate
    /\ listed' = NoListing
    /\ UNCHANGED <<events, videos, service_times, gallery_albums, docsAdded>>
    /\ UNCHANGED <<workflowVars, infoVars, pageVars>>

\* await deleteDoc(albumRef)
DeleteAlbumDoc(a) ==
    /\ gd[a].pc = "album"
    /\ \E ok \in BOOLEAN :
          IF ok
          THEN /\ gallery_albums' = {d \in gallery_albums : d.id # a}
               /\ gd' = [DisturbedBut(a) EXCEPT ![a].pc = "ok"]
          ELSE /\ UNCHANGED gallery_albums
               /\ gd' = [DisturbedBut(a) EXCEPT ![a].pc = "error"]
    /\ lastCreated' = NoCreate
    /\ listed' = NoListing
    /\ UNCHANGED <<events, videos, service_times, gallery_images, docsAdded>>
    /\ UNCHANGED <<workflowVars, infoVars, pageVars>>

\* the promise of deleteGalleryAlbum has been consumed (Gallery.tsx lines 111-123)
DeleteAlbumReturn(a) ==
    /\ gd[a].pc \in {"ok", "error"}
    /\ gd[a].pending = {}
    /\ gd' = [gd EXCEPT ![a] = IdleDelete]
    /\ UNCHANGED <<events, videos, service_times, gallery_albums, gallery_images,
                   docsAdded, listed, lastCreated>>
    /\ UNCHANGED <<workflowVars, infoVars, pageVars>>

NextGallery ==
    \/ CreateAlbumMutation
    \/ CreateGalleryImage
    \/ DeleteGalleryImage
    \/ \E a \in DocId : DeleteAlbumStart(a)
    \/ \E a \in DocId : DeleteAlbumQuery(a)
    \/ \E a \in DocId : DeleteAlbumImage(a)
    \/ \E a \in DocId : DeleteAlbumDoc(a)
    \/ \E a \in DocId : DeleteAlbumReturn(a)

SpecGallery == Init /\ [][NextGallery]_vars

\* ---------------------------------------------------- the list operations
\* snapshot.docs of a query without orderBy: the documents by document id
RECURSIVE ById(_)
ById(docs) ==
    IF docs = {} THEN <<>>
    ELSE LET d == CHOOSE e \in docs : \A f \in docs : e.id <= f.id
         IN  <<d>> \o ById(docs \ {d})

Reverse(s) == [i \in 1..Len(s) |-> s[Len(s) + 1 - i]]

\* the value the comparators read: toDate().getTime() of eventDate, or
\* (displayOrder || 0)
SortKey(field, d) == IF field = "eventDate" THEN toMillis(d.eventDate) ELSE d.displayOrder

\* the comparator: a - b ascending, b - a descending
compare(field, dir, a, b) ==
    IF dir = "asc" THEN SortKey(field, a) - SortKey(field, b)
    ELSE SortKey(field, b) - SortKey(field, a)

\* Array.prototype.sort(compare) is stable: an element is placed after the
\* elements that do not compare greater
RECURSIVE InsertSorted(_, _, _, _)
InsertSorted(field, dir, s, d) ==
    IF s = <<>> THEN <<d>>
    ELSE IF compare(field, dir, Head(s), d) <= 0
         THEN <<Head(s)>> \o InsertSorted(field, dir, Tail(s), d)
    ELSE <<d>> \o s

RECURSIVE sort(_, _, _)
sort(field, dir, s) ==
    IF s = <<>> THEN <<>>
    ELSE InsertSorted(field, dir, sort(field, dir, SubSeq(s, 1, Len(s) - 1)), s[Len(s)])

\* query(ref, orderBy(field, dir)): by the field, then by document id, both
\* in direction dir
orderBy(field, dir, docs) ==
    IF dir = "asc" THEN sort(field, "asc", ById(docs))
    ELSE sort(field, "desc", Reverse(ById(docs)))

\* mutant: the comparator of getActiveEvents subtracts the other way round
getActiveEvents_Descending == sort("eventDate", "desc", ById({e \in events : e.isActive}))

\* part_002 lines 235-249: where('isActive', '==', true), sorted in the client
getActiveEvents == sort("eventDate", "asc", ById({e \in events : e.isActive}))

\* part_002 lines 251-262: the whole collection, sorted in the client
getAllEvents == sort("eventDate", "desc", ById(events))

\* church.ts lines 120-129: where('isActive', '==', true), orderBy('eventDate', 'asc')
queryActiveEvents == orderBy("eventDate", "asc", {e \in events : e.isActive})

\* church.ts lines 131-136: orderBy('eventDate', 'desc')
queryAllEvents == orderBy("eventDate", "desc", events)

\* orderBy('displayOrder', 'asc') in both copies
getAllVideos == orderBy("displayOrder", "asc", videos)

getAllServiceTimes == orderBy("displayOrder", "asc", service_times)

\* part_002 lines 502-508: the whole collection, sorted in the client
\* (church.ts lines 364-369 orders in the query, with the same result)
getAllGalleryAlbums == sort("displayOrder", "asc", ById(gallery_albums))

ListOps ==
    {"getActiveEvents", "getAllEvents", "queryActiveEvents", "queryAllEvents",
     "getAllVideos", "getAllServiceTimes", "getAllGalleryAlbums"}

Listing(op) ==
    IF op = "getActiveEvents" THEN getActiveEvents
    ELSE IF op = "getAllEvents" THEN getAllEvents
    ELSE IF op = "queryActiveEvents" THEN queryActiveEvents
    ELSE IF op = "queryAllEvents" THEN queryAllEvents
    ELSE IF op = "getAllVideos" THEN getAllVideos
    ELSE IF op = "getAllServiceTimes" THEN getAllServiceTimes
    ELSE getAllGalleryAlbums

\* a list function is called and returns its array (a rejected getDocs
\* returns nothing)
List(op) ==
    /\ \E ok \in BOOLEAN :
          listed' = IF ok THEN [op |-> op, result |-> Listing(op)] ELSE NoListing
    /\ UNCHANGED <<events, videos, service_times, gallery_albums, gallery_images,
                   docsAdded, lastCreated, gd>>
    /\ UNCHANGED <<workflowVars, infoVars, pageVars>>

NextContent ==
    \/ CreateEvent
    \/ CreateVideo
    \/ CreateServiceTime
    \/ CreateGalleryAlbum
    \/ \E op \in ListOps : List(op)

SpecContent == Init /\ [][NextContent]_vars

\* ------------------------------------------- church.ts: updateChurchInfo
ChurchNames == 1..MaxKey

InfoDocs == {i \in InfoId : church_info[i] # NoDoc}

\* getChurchInfo: query(churchInfoRef, limit(1)) returns the first document
\* in document-id order, or null
getChurchInfo == IF InfoDocs = {} THEN NoDoc
                 ELSE CHOOSE i \in InfoDocs : \A j \in InfoDocs : i <= j

\* Settings.tsx lines 52-55: an admin saves the settings form
UpdateChurchInfoStart(c) ==
    /\ ci[c].pc = "idle"
    /\ \E data \in ChurchNames :
          ci' = [ci EXCEPT ![c] = [pc |-> "getChurchInfo", id |-> NoDoc, data |-> data]]
    /\ UNCHANGED <<church_info, patched>>
    /\ UNCHANGED <<workflowVars, contentVars, pageVars>>

\* church.ts lines 255-257: const churchInfo = await getChurchInfo()
UpdateChurchInfoRead(c) ==
    /\ ci[c].pc = "getChurchInfo"
    /\ \E ok \in BOOLEAN :
          ci' = [ci EXCEPT ![c] =
                    IF ~ok THEN IdleInfo
                    ELSE IF getChurchInfo # NoDoc
                         THEN [ci[c] EXCEPT !.pc = "updateDoc", !.id = getChurchInfo]
                    ELSE [ci[c] EXCEPT !.pc = "addDoc"]]
    /\ UNCHANGED <<church_info, patched>>
    /\ UNCHANGED <<workflowVars, contentVars, pageVars>>

\* church.ts lines 258-262: updateDoc of the document that was read
UpdateChurchInfoPatch(c) ==
    /\ ci[c].pc = "updateDoc"
    /\ \E ok \in BOOLEAN :
          IF ok /\ church_info[ci[c].id] # NoDoc
          THEN /\ church_info' = [church_info EXCEPT ![ci[c].id] = ci[c].data]
               /\ patched' = patched \cup {ci[c].id}
          ELSE UNCHANGED <<church_info, patched>>
    /\ ci' = [ci EXCEPT ![c] = IdleInfo]
    /\ UNCHANGED <<workflowVars, contentVars, pageVars>>

\* church.ts lines 264-270: addDoc creates a document under a new random id
UpdateChurchInfoAdd(c) ==
    /\ ci[c].pc = "addDoc"
    /\ \E ok \in BOOLEAN, i \in InfoId \ InfoDocs :
          church_info' = IF ok THEN [church_info EXCEPT ![i] = ci[c].data] ELSE church_info
    /\ ci' = [ci EXCEPT ![c] = IdleInfo]
    /\ UNCHANGED patched
    /\ UNCHANGED <<workflowVars, contentVars, pageVars>>

NextInfo ==
    \E c \in Uid :
        \/ UpdateChurchInfoStart(c)
        \/ UpdateChurchInfoRead(c)
        \/ UpdateChurchInfoPatch(c)
        \/ UpdateChurchInfoAdd(c)

SpecInfo == Init /\ [][NextInfo]_vars

\* ------------------------------------- useFirebaseAuth.tsx: the provider
\* no auth-state callback and no signOut call is under way
AuthQuiet == ctx.lookups = {} /\ ~ctx.signingOut

\* mutant: a failed role lookup leaves the user an admin
checkAdminRole_TrueOnError(adminStatus, ok) == IF ok THEN adminStatus ELSE TRUE

\* checkAdminRole (lines 31-39): the value handed to setIsAdmin
checkAdminRole(adminStatus, ok) == IF ok THEN adminStatus ELSE FALSE

\* onAuthStateChanged callback with a user (lines 48-53): a sign-in, or the
\* restored session at mount; runs up to the await of checkAdminRole
AuthStateSignedIn(u) ==
    /\ concurrent \/ AuthQuiet
    /\ u \in authUsers
    /\ ctx.currentUser # u
    /\ ctx' = [ctx EXCEPT !.currentUser = u, !.user = u,
                          !.lookups = ctx.lookups \cup {u}]
    /\ UNCHANGED <<workflowVars, contentVars, infoVars, sub, bd>>

\* isUserAdmin answers or throws; the callback goes on to setIsLoading(false)
\* (lines 33-38 and 58)
CheckAdminRoleReturn(u) ==
    /\ u \in ctx.lookups
    /\ \E ok \in BOOLEAN :
          ctx' = [ctx EXCEPT !.isAdmin = checkAdminRole(isUserAdmin(u), ok),
                             !.lookupFailed = ~ok,
                             !.isLoading = FALSE,
                             !.lookups = ctx.lookups \ {u}]
    /\ UNCHANGED <<workflowVars, contentVars, infoVars, sub, bd>>

\* onAuthStateChanged callback with null at mount (lines 48-58)
AuthStateNull ==
    /\ ctx.isLoading
    /\ ctx.currentUser = None
    /\ ctx.lookups = {}
    /\ ctx' = [ctx EXCEPT !.user = None, !.isAdmin = FALSE, !.isLoading = FALSE]
    /\ UNCHANGED <<workflowVars, contentVars, infoVars, sub, bd>>

\* signOut (line 83): firebaseSignOut ends the session, the auth-state
\* callback runs with null
SignOutCall ==
    /\ concurrent \/ AuthQuiet
    /\ ctx.currentUser # None
    /\ ctx' = [ctx EXCEPT !.currentUser = None, !.user = None, !.isAdmin = FALSE,
                          !.isLoading = FALSE, !.signingOut = TRUE]
    /\ UNCHANGED <<workflowVars, contentVars, infoVars, sub, bd>>

\* signOut after the await (lines 84-85)
SignOutReturn ==
    /\ ctx.signingOut
    /\ ctx' = [ctx EXCEPT !.user = None, !.isAdmin = FALSE, !.signingOut = FALSE]
    /\ UNCHANGED <<workflowVars, contentVars, infoVars, sub, bd>>

NextAuth ==
    \/ \E u \in Uid : AuthStateSignedIn(u)
    \/ \E u \in Uid : CheckAdminRoleReturn(u)
    \/ AuthStateNull
    \/ SignOutCall
    \/ SignOutReturn

\* one browser over every shape of the stores
SpecAuth == InitHandler /\ [][NextAuth]_vars

\* the same browser with its callbacks, lookups and signOut interleaving
InitAuthInterleaved ==
    \E sh \in [Uid -> UNION {Shapes(u) : u \in Uid}] :
        /\ \A u \in Uid : sh[u] \in Shapes(u)
        /\ authUsers = {u \in Uid : sh[u].auth}
        /\ usedUids = {u \in Uid : sh[u].used}
        /\ users = {u \in Uid : sh[u].profile}
        /\ user_roles = [u \in Uid |-> sh[u].role]
        /\ admin_requests = [u \in Uid |-> sh[u].request]
        /\ inv = [i \in Slots |-> IdleInv]
        /\ su = [u \in Uid |-> IdleSignUp]
        /\ cl = [u \in Uid |-> IdleClient]
        /\ concurrent = TRUE
        /\ noAdminSeen = {}
        /\ adminTokens = {}
        /\ ContentEmpty

SpecAuthInterleaved == InitAuthInterleaved /\ [][NextAuth]_vars

\* --------------------------------- usePendingRequests.tsx: the listener
\* where('status', '==', 'pending'): the documents of the listener's query
PendingDocs == {u \in Uid : admin_requests[u].status = "pending"}

\* mutant: the test of change.type is dropped for modified documents
toastsFor_AlsoModified(changeType) == IF changeType \in {"added", "modified"} THEN 1 ELSE 0

\* lines 44-52: a toast for a change of type 'added', none otherwise
toastsFor(changeType) == IF changeType = "added" THEN 1 ELSE 0

\* snapshot.docChanges(): the type of u's change between the last snapshot
\* and this one
changeType(u) ==
    IF u \in PendingDocs \ sub.seen THEN "added"
    ELSE IF u \in sub.seen \ PendingDocs THEN "removed"
    ELSE IF u \in sub.dirty \cap PendingDocs THEN "modified"
    ELSE "none"

\* lines 39-43: the effect runs at mount and attaches the listener
Subscribe ==
    /\ ~sub.active
    /\ sub' = [NoSubscription EXCEPT !.active = TRUE, !.first = TRUE]
    /\ UNCHANGED <<workflowVars, contentVars, infoVars, ctx, bd>>

\* line 58: the cleanup at unmount
Unsubscribe ==
    /\ sub.active
    /\ sub' = NoSubscription
    /\ UNCHANGED <<workflowVars, contentVars, infoVars, ctx, bd>>

\* lines 43-56: the listener is called with a snapshot: the first one, or one
\* after the result of the query has changed
OnSnapshot ==
    /\ sub.active
    /\ sub.snapshots < MaxSnapshots
    /\ sub.first \/ PendingDocs # sub.seen \/ sub.dirty \cap PendingDocs # {}
    /\ sub' = [sub EXCEPT !.first = FALSE,
                          !.seen = PendingDocs,
                          !.dirty = {},
                          !.toasts = [u \in Uid |-> sub.toasts[u] + toastsFor(changeType(u))],
                          !.invalidations = @ + 1,
                          !.snapshots = @ + 1]
    /\ UNCHANGED <<workflowVars, contentVars, infoVars, ctx, bd>>

\* the writers of admin_requests, seen from the listener
\* auth.ts line 58: createAdminRequest for a new identity
RequestCreated(u) ==
    /\ u \notin usedUids
    /\ usedUids' = usedUids \cup {u}
    /\ admin_requests' = [admin_requests EXCEPT ![u] =
                             [status |-> "pending", reviewedBy |-> None]]
    /\ UNCHANGED <<authUsers, users, user_roles, inv, su, cl, concurrent, noAdminSeen,
                   adminTokens>>
    /\ UNCHANGED <<contentVars, infoVars, ctx, sub, bd>>

\* a pending request is written again and stays pending
RequestRewritten(u) ==
    /\ u \in PendingDocs
    /\ u \notin sub.dirty
    /\ sub' = [sub EXCEPT !.dirty = IF sub.active /\ u \in sub.seen THEN @ \cup {u} ELSE @]
    /\ sub' # sub
    /\ UNCHANGED <<workflowVars, contentVars, infoVars, ctx, bd>>

\* Admins.tsx line 161: approveAdminRequest sets the status to approved
RequestApproved(u) ==
    /\ u \in PendingDocs
    /\ admin_requests' = [admin_requests EXCEPT ![u] =
                             [status |-> "approved", reviewedBy |-> System]]
    /\ UNCHANGED <<authUsers, usedUids, users, user_roles, inv, su, cl, concurrent,
                   noAdminSeen, adminTokens>>
    /\ UNCHANGED <<contentVars, infoVars, ctx, sub, bd>>

\* delete-user.ts line 95: the request document is deleted
RequestDeleted(u) ==
    /\ admin_requests[u] # NoRequest
    /\ admin_requests' = [admin_requests EXCEPT ![u] = NoRequest]
    /\ UNCHANGED <<authUsers, usedUids, users, user_roles, inv, su, cl, concurrent,
                   noAdminSeen, adminTokens>>
    /\ UNCHANGED <<contentVars, infoVars, ctx, sub, bd>>

NextPending ==
    \/ Subscribe
    \/ Unsubscribe
    \/ OnSnapshot
    \/ \E u \in Uid : RequestCreated(u)
    \/ \E u \in Uid : RequestRewritten(u)
    \/ \E u \in Uid : RequestApproved(u)
    \/ \E u \in Uid : RequestDeleted(u)

SpecPending == Init /\ [][NextPending]_vars

\* =================================================================== claims
\* the invocation in slot i produces its HTTP response in this step
Responds(i) == inv[i].pc # "done" /\ inv'[i].pc = "done"

VerifiedPost(r) ==
    /\ r.method = "POST"
    /\ r.header.kind = "bearer"
    /\ verifyIdToken(r.header.tok) # None

\* C1: a POST whose bearer token verifies to a caller whose user_roles record
\* is absent or holds a role other than admin/super_admin is answered 403,
\* whatever userId the body carries (the role lookup itself succeeding).
C1_NonAdminForbidden ==
    [][\A i \in Slots :
          ( /\ Responds(i)
            /\ VerifiedPost(inv'[i])
            /\ inv[i].pc = "role"
            /\ ~inv'[i].backendFailed
            /\ ~IsAdminRole(user_roles[verifyIdToken(inv'[i].header.tok)].role) )
          => inv'[i].status = 403]_vars

C1_Witness ==
    \E i \in Slots :
        /\ inv[i].pc = "done"
        /\ inv[i].status = 403
        /\ inv[i].body.kind = "json"
        /\ inv[i].body.userId \in Uid
        /\ user_roles[inv[i].requestingUserId].role = "user"

\* C2: a POST by a verified admin or super_admin whose body userId is the
\* caller's own identity is answered 400, and the invocation leaves the
\* caller's role, admin request, profile and auth identity as they were.
C2_SelfDeleteRejected ==
    [][\A i \in Slots :
          LET r == inv'[i]
              me == verifyIdToken(r.header.tok)
          IN  ( /\ Responds(i)
                /\ VerifiedPost(r)
                /\ ~r.backendFailed
                /\ IsAdminRole(r.role)
                /\ r.body.kind = "json"
                /\ r.body.userId = me )
              => /\ r.status = 400
                 /\ r.deleted = {}
                 /\ r.pending = {}
                 /\ user_roles'[me] = user_roles[me]
                 /\ IsAdminRole(user_roles'[me].role)
                 /\ admin_requests'[me] = admin_requests[me]
                 /\ (me \in users') = (me \in users)
                 /\ (me \in authUsers') = (me \in authUsers)]_vars

C2_Witness ==
    \E i \in Slots :
        /\ inv[i].pc = "done"
        /\ inv[i].status = 400
        /\ inv[i].body.userId = inv[i].requestingUserId
        /\ inv[i].requestingUserId \in authUsers \cap users
        /\ user_roles[inv[i].requestingUserId].role = "admin"
        /\ admin_requests[inv[i].requestingUserId].status = "approved"

\* C3: every POST whose token is missing, is not of the form
\* 'Bearer <token>', or fails verification is answered 401.
C3_InvalidTokenUnauthorized ==
    [][\A i \in Slots :
          ( /\ Responds(i)
            /\ inv'[i].method = "POST"
            /\ (TokenMissing(inv'[i].header) \/ verifyIdToken(inv'[i].header.tok) = None) )
          => inv'[i].status = 401]_vars

\* the check a request fails first, in the order of section 4.4
EarliestFailing(r) ==
    IF r.method = "OPTIONS" THEN "preflight"
    ELSE IF r.method # "POST" THEN "method"
    ELSE IF TokenMissing(r.header) THEN "token"
    ELSE IF verifyIdToken(r.header.tok) = None THEN "verify"
    ELSE IF r.role = "unread" THEN "none"
    ELSE IF ~IsAdminRole(r.role) THEN "role"
    ELSE IF r.body.kind = "malformed" THEN "none"
    ELSE IF r.body.userId = NoUserId THEN "userId"
    ELSE IF r.body.userId = verifyIdToken(r.header.tok) THEN "self"
    ELSE "none"

\* the check a response reports
Outcome(r) ==
    IF r.status = 200 /\ ~r.success THEN "preflight"
    ELSE IF r.status = 405 THEN "method"
    ELSE IF r.status = 401 THEN "token"
    ELSE IF r.error = "verifyIdToken failed" THEN "verify"
    ELSE IF r.status = 403 THEN "role"
    ELSE IF r.status = 400 /\ r.error = "User ID is required" THEN "userId"
    ELSE IF r.status = 400 /\ r.error = "Cannot delete your own account" THEN "self"
    ELSE "none"

\* C4: the checks are applied in the order preflight, method, token present,
\* token verifies, caller role, userId present, userId differs from caller;
\* the response is that of the earliest check the request fails, and a
\* request failing none of them gets none of their responses.
C4_EarliestFailingCheckWins ==
    \A i \in Slots :
        (inv[i].pc = "done" /\ ~inv[i].backendFailed)
        => Outcome(inv[i]) = EarliestFailing(inv[i])

\* a non-admin caller without userId gets 403; a GET without token gets 405
C4_Witness ==
    \E i \in Slots :
        /\ inv[i].pc = "done"
        /\ inv[i].status = 403
        /\ inv[i].body.userId = NoUserId

\* the responses of the validation and authorization checks
Rejection(r) ==
    r.pc = "done" /\ (r.status \in {400, 401, 403, 405} \/ (r.status = 200 /\ ~r.success))

\* C5: when the handler answers 400, 401, 403, 405 or 200 to OPTIONS, the
\* invocation has deleted nothing and has no delete in flight, and the
\* answering step changes no store.
C5_RejectionBeforeMutation ==
    /\ [][\A i \in Slots : (Responds(i) /\ Rejection(inv'[i])) => UNCHANGED stores]_vars
    /\ [](\A i \in Slots : Rejection(inv[i]) => (inv[i].deleted = {} /\ inv[i].pending = {}))

C5_Witness ==
    \E i \in Slots :
        /\ Rejection(inv[i])
        /\ inv[i].status = 400
        /\ inv[i].body.userId \in users \cap authUsers
        /\ user_roles[inv[i].body.userId] # NoRole

\* C6: when the handler answers 200 with success=true for target T, T has no
\* user_roles, admin_requests or users document and is no auth identity.
C6_SuccessMeansPurged ==
    [][\A i \in Slots :
          (Responds(i) /\ inv'[i].status = 200 /\ inv'[i].success)
          => LET t == inv'[i].body.userId
             IN  /\ user_roles'[t] = NoRole
                 /\ admin_requests'[t] = NoRequest
                 /\ t \notin users'
                 /\ t \notin authUsers']_vars

C6_Witness ==
    \E i \in Slots :
        /\ inv[i].pc = "done"
        /\ inv[i].success
        /\ inv[i].deleted = Collections \cup {"auth"}
        /\ inv[i].body.userId \notin authUsers

\* the sign-up of u returns {user, error: null} in this step
SignUpCompletes(u) == su[u].pc # "ok" /\ su'[u].pc = "ok" /\ su'[u].flow = "email"

\* the admin page handler of y settles (its try block ends) in this step
Settles(y) == cl[y].pc \notin {"idle", "settled"} /\ cl'[y].pc = "settled"

C8_LaterSignUpIsPending ==
    [][\A u \in Uid :
          (SignUpCompletes(u) /\ u \notin noAdminSeen')
          => /\ admin_requests'[u] = [status |-> "pending", reviewedBy |-> None]
             /\ user_roles'[u] = NoRole]_vars

C8_Witness ==
    \E u \in Uid :
        /\ su[u].pc = "ok"
        /\ su[u].flow = "email"
        /\ u \notin noAdminSeen
        /\ admin_requests[u].status = "pending"
        /\ AdminExists(user_roles)

C10_RejectPurges ==
    [][\A y \in Uid :
          ( /\ Settles(y)
            /\ cl'[y].kind = "reject"
            /\ ~cl'[y].backendFailed )
          => LET x == cl'[y].target
             IN  /\ x \notin users'
                 /\ user_roles'[x] = NoRole
                 /\ admin_requests'[x] = NoRequest
                 /\ x \notin authUsers']_vars

\* the admin page handler of y ends (with or without a backend call) in this step
Finishes(y) == cl[y].pc # "settled" /\ cl'[y].pc = "settled"

\* C11: end to end, after A signed up first (super_admin), B signed up second,
\* A approved B and A removes B with the Admins page's delete action
\* (handleRemoveAdmin) without any backend call failing, B's profile, role
\* assignment and admin request are gone and B is no auth identity any more.
C11_RemovePurges ==
    [][\A y \in Uid :
          ( /\ Settles(y)
            /\ cl'[y].kind = "remove"
            /\ ~cl'[y].backendFailed
            /\ user_roles'[y] = [role |-> "super_admin", assignedBy |-> System] )
          => LET x == cl'[y].target
             IN  /\ x \notin users'
                 /\ user_roles'[x] = NoRole
                 /\ admin_requests'[x] = NoRequest
                 /\ x \notin authUsers']_vars

\* C12: an approve, reject or delete/remove action whose target is the acting
\* admin's own identity ends with an error and changes no role assignment,
\* admin request, profile or auth identity.
C12_SelfActionRejected ==
    /\ [][\A y \in Uid :
            (cl[y].pc \notin {"idle", "settled"} /\ cl[y].target = y)
            => UNCHANGED stores]_vars
    /\ [][\A y \in Uid :
            (Finishes(y) /\ cl'[y].target = y) => cl'[y].result = "error"]_vars

\* deleteGalleryAlbum(a) returns without error in this step
DeleteAlbumCompletes(a) == gd[a].pc # "ok" /\ gd'[a].pc = "ok"

\* C13: when deleteGalleryAlbum(A) completes without error and no other
\* operation ran meanwhile, no gallery_images document has albumId = A, the
\* gallery_albums document A does not exist, and the images of other albums
\* are those that existed when the call began.
C13_AlbumDeleteCascades ==
    [][\A a \in DocId :
          (DeleteAlbumCompletes(a) /\ gd'[a].alone)
          => /\ \A d \in gallery_images' : d.albumId # a
             /\ \A d \in gallery_albums' : d.id # a
             /\ {d \in gallery_images' : d.albumId # a}
                   = {d \in gd'[a].before : d.albumId # a}]_vars

C13_Witness ==
    \E a \in DocId :
        /\ gd[a].pc = "ok"
        /\ gd[a].alone
        /\ gd[a].snapshot # {}
        /\ gd[a].snapshot = {d.id : d \in gd[a].before}
        /\ gallery_images = {}
        /\ gallery_albums # {}

Elements(s) == {s[i] : i \in 1..Len(s)}

\* the array s holds the documents docs, each once
ExactlyOnce(s, docs) == Elements(s) = docs /\ Len(s) = Cardinality(docs)

AscendingByDate(s) ==
    \A i, j \in 1..Len(s) : i < j => toMillis(s[i].eventDate) <= toMillis(s[j].eventDate)

DescendingByDate(s) ==
    \A i, j \in 1..Len(s) : i < j => toMillis(s[i].eventDate) >= toMillis(s[j].eventDate)

\* C14: whatever the events collection holds, getActiveEvents returns exactly
\* the events with isActive = true, by eventDate ascending, and getAllEvents
\* returns every event, by eventDate descending (in both copies of church.ts).
C14_EventListings ==
    /\ listed.op \in {"getActiveEvents", "queryActiveEvents"}
       => /\ ExactlyOnce(listed.result, {e \in events : e.isActive})
          /\ AscendingByDate(listed.result)
    /\ listed.op \in {"getAllEvents", "queryAllEvents"}
       => /\ ExactlyOnce(listed.result, events)
          /\ DescendingByDate(listed.result)

\* two active events created latest-first are returned earliest-first
C14_Witness ==
    /\ listed.op = "getActiveEvents"
    /\ Len(listed.result) = 2
    /\ listed.result[1].id > listed.result[2].id
    /\ toMillis(listed.result[1].eventDate) < toMillis(listed.result[2].eventDate)

\* the collection a list-all function reads
ListAllOf(op) ==
    IF op \in {"getAllEvents", "queryAllEvents"} THEN "events"
    ELSE IF op = "getAllVideos" THEN "videos"
    ELSE IF op = "getAllServiceTimes" THEN "service_times"
    ELSE IF op = "getAllGalleryAlbums" THEN "gallery_albums"
    ELSE "other"

\* the returned record d carries every field of the create call's argument
\* with the value supplied (an eventDate as the same instant)
MatchesSupplied(kind, d, supplied) ==
    /\ d.isActive = supplied.isActive
    /\ kind = "events" => toMillis(d.eventDate) = supplied.eventDate
    /\ kind # "events" => d.displayOrder = supplied.displayOrder
    /\ kind = "videos" =>
          /\ d.youtubeVideoId = supplied.youtubeVideoId
          /\ supplied.thumbnailUrl # "absent" => d.thumbnailUrl = supplied.thumbnailUrl

\* C15: for events, videos, service times and gallery albums, a list-all call
\* that follows a successful create with no write in between returns a
\* record with the new id whose supplied fields all equal the values passed
\* to create, and which carries its server timestamp.
C15_CreateThenListAll ==
    (lastCreated.kind # "none" /\ ListAllOf(listed.op) = lastCreated.kind)
    => \E d \in Elements(listed.result) :
          /\ d.id = lastCreated.id
          /\ MatchesSupplied(lastCreated.kind, d, lastCreated.supplied)
          /\ "createdAt" \in d.stamps

\* C16: from an empty church_info collection, after any sequence of
\* updateChurchInfo calls, interleaved ones included, the collection holds at
\* most one document and every update patches that one document.
C16_ChurchInfoSingleton ==
    /\ Cardinality(InfoDocs) <= 1
    /\ patched \subseteq InfoDocs

\* C17: when the auth-state callback of the signed-in identity finishes,
\* isAdmin is true exactly if that identity's role is admin or super_admin
\* and the role lookup did not fail.
C17_IsAdminFollowsRole ==
    [][\A u \in Uid :
          (u \in ctx.lookups /\ u \notin ctx'.lookups /\ ctx'.user = u)
          => (ctx'.isAdmin <=> ( /\ ~ctx'.lookupFailed
                                 /\ IsAdminRole(user_roles'[u].role) ))]_vars

C17_Witness ==
    /\ ctx.user # None
    /\ ctx.lookups = {}
    /\ ~ctx.isLoading
    /\ ~ctx.lookupFailed
    /\ ctx.isAdmin
    /\ user_roles[ctx.user].role = "admin"

\* C18: in handleGoogleRedirect a profile is written only for an identity
\* without a profile, an admin request is created only for an identity that
\* is not an admin and has no request, and for an identity with a profile and
\* a request no step of the redirect sign-in changes the request.
C18_GoogleRedirectFrame ==
    [][\A u \in Uid :
          su[u].flow = "google"
          => /\ (su[u].pc = "createUserProfile" /\ su'[u].pc = "ownRole")
                   => u \notin users
             /\ (su[u].pc = "createAdminRequest" /\ su'[u].pc = "ok")
                   => /\ ~IsAdminRole(user_roles[u].role)
                      /\ admin_requests[u] = NoRequest
             /\ (u \in users /\ admin_requests[u] # NoRequest)
                   => admin_requests'[u] = admin_requests[u]]_vars

\* C19: authorization comes from the role record read in the invocation:
\* when the caller holds a token issued while the caller was admin or
\* super_admin and the caller's role record has since been removed, the role
\* read of a request carrying that token ends the invocation with 403 (the
\* read itself succeeding), nothing deleted, no delete in flight and no store
\* changed.
C19_FreshRoleDecides ==
    [][\A i \in Slots :
          LET c == inv[i].requestingUserId
              r == inv'[i]
          IN  ( /\ inv[i].pc = "role"
                /\ r.pc # "role"
                /\ c \in adminTokens
                /\ ~IsAdminRole(user_roles[c].role) )
              => /\ r.pc = "done"
                 /\ ~r.backendFailed => r.status = 403
                 /\ r.status \in {403, 500}
                 /\ r.deleted = {}
                 /\ r.pending = {}
                 /\ UNCHANGED stores]_vars

C19_Witness ==
    \E i \in Slots :
        /\ inv[i].pc = "done"
        /\ inv[i].status = 403
        /\ inv[i].requestingUserId \in adminTokens
        /\ inv[i].body.kind = "json"
        /\ inv[i].body.userId \in (users \cap authUsers) \ {inv[i].requestingUserId}
        /\ IsAdminRole(user_roles[inv[i].body.userId].role)

\* C20: with sign-ups overlapping in a fresh deployment, every sign-up that
\* completes ends either promoted (super_admin attributed to 'system', no
\* admin request), which happens only if no admin existed at some moment of
\* that sign-up, or with a pending request and no role; nothing makes the
\* check and the role write atomic, so two identities can both end promoted
\* (the witness).
C20_OverlappingSignUps ==
    [][\A u \in Uid :
          SignUpCompletes(u)
          => \/ /\ user_roles'[u] = [role |-> "super_admin", assignedBy |-> System]
                /\ admin_requests'[u] = NoRequest
                /\ u \in noAdminSeen'
             \/ /\ user_roles'[u] = NoRole
                /\ admin_requests'[u] = [status |-> "pending", reviewedBy |-> None]]_vars

C20_Witness ==
    \E u, v \in Uid :
        /\ u # v
        /\ su[u].pc = "ok"
        /\ su[v].pc = "ok"
        /\ user_roles[u] = [role |-> "super_admin", assignedBy |-> System]
        /\ user_roles[v] = [role |-> "super_admin", assignedBy |-> System]
        /\ admin_requests[u] = NoRequest
        /\ admin_requests[v] = NoRequest

\* the account of u exists and signUpWithEmail is between two of its awaits
AfterAccountCreation(p) == p.flow = "email" /\ p.pc \notin {"none", "ok", "error"}

\* C21: once the account exists, every further step of signUpWithEmail leaves
\* the identity in the auth provider; a step that ends the sign-up with
\* {user: null, error} changes no store (nothing is rolled back), and the
\* sign-up returns the user only with the profile written and a role or an
\* admin request present, so a failed write always ends in the error return.
C21_NoRollbackOnFailure ==
    [][\A u \in Uid :
          AfterAccountCreation(su[u])
          => /\ u \in authUsers'
             /\ su'[u].pc = "error" => UNCHANGED stores
             /\ su'[u].pc = "ok"
                   => /\ u \in users'
                      /\ user_roles'[u] # NoRole \/ admin_requests'[u] # NoRequest]_vars

C21_Witness ==
    \E u \in Uid :
        /\ su[u].pc = "error"
        /\ su[u].flow = "email"
        /\ u \in authUsers
        /\ u \notin users
        /\ user_roles[u] = NoRole
        /\ admin_requests[u] = NoRequest

\* ---- the deletion phase of one invocation as a function of what fails
\* which of the awaited operations of lines 93-100 take effect: the document
\* deletes that succeed, and whether auth.deleteUser would succeed
FailurePatterns == [docs : SUBSET Collections, auth : BOOLEAN]

\* lines 93-100: auth.deleteUser is awaited after Promise.all and so runs only
\* when all three document deletes have succeeded
deletionOutcome(p, hadIdentity) ==
    p.docs \cup (IF p.docs = Collections /\ p.auth /\ hadIdentity THEN {"auth"} ELSE {})

HasDoc(c, t) ==
    IF c = "user_roles" THEN user_roles[t] # NoRole
    ELSE IF c = "admin_requests" THEN admin_requests[t] # NoRequest
    ELSE t \in users

\* identity deleted from the auth provider, a document left behind
AuthGoneResidueLeft(t, deleted) ==
    "auth" \in deleted /\ \E c \in Collections \ deleted : HasDoc(c, t)

\* documents deleted, identity still in the auth provider
DocsGoneIdentityLeft(t, deleted) ==
    /\ "auth" \notin deleted
    /\ t \in authUsers
    /\ \E c \in deleted \cap Collections : HasDoc(c, t)

\* C22 as stated: for an invocation about to delete a target that has an
\* auth identity and a document, some failure of its operations leaves the
\* identity deleted with a document remaining, and some failure leaves
\* documents deleted with the identity remaining.
C22_EitherStateCanBeLeft ==
    \A i \in Slots :
        LET t == inv[i].body.userId
        IN  ( /\ inv[i].pc = "deleting"
              /\ inv[i].pending = Collections
              /\ t \in authUsers
              /\ \E c \in Collections : HasDoc(c, t) )
            => /\ \E p \in FailurePatterns :
                     AuthGoneResidueLeft(t, deletionOutcome(p, TRUE))
               /\ \E p \in FailurePatterns :
                     DocsGoneIdentityLeft(t, deletionOutcome(p, TRUE))

\* C22 amended: what an invocation has deleted is always the outcome of some
\* failure pattern; the identity is deleted only after all three documents,
\* so a failure never leaves the identity deleted with a document remaining:
\* the only inconsistent state left is documents deleted while the identity
\* still exists (the witness).
C22_OnlyIdentityCanBeLeft ==
    \A i \in Slots :
        /\ \E p \in FailurePatterns, h \in BOOLEAN :
              /\ inv[i].deleted \subseteq deletionOutcome(p, h)
              /\ deletionOutcome(p, h) \subseteq inv[i].deleted \cup inv[i].pending
        /\ "auth" \in inv[i].deleted
              => /\ inv[i].deleted = Collections \cup {"auth"}
                 /\ \A c \in Collections : ~HasDoc(c, inv[i].body.userId)

C22_Witness ==
    \E i \in Slots :
        /\ inv[i].pc = "done"
        /\ inv[i].status = 500
        /\ inv[i].backendFailed
        /\ inv[i].deleted = {"user_roles"}
        /\ inv[i].pending = {}
        /\ inv[i].body.userId \in authUsers \cap users
        /\ user_roles[inv[i].body.userId] = NoRole

\* C23: the auth-provider deletion is reached only with all three document
\* deletions done and none outstanding; when it then does not delete the
\* identity, the handler answers 500, changes no store (no rollback) and the
\* target is left an auth identity without role, admin request or profile.
C23_DocumentsFirstAuthLast ==
    /\ [](\A i \in Slots :
            inv[i].pc = "authdel"
            => /\ inv[i].deleted = Collections
               /\ inv[i].pending = {}
               /\ \A c \in Collections : ~HasDoc(c, inv[i].body.userId))
    /\ [][\A i \in Slots :
            LET t == inv[i].body.userId
            IN  (inv[i].pc = "authdel" /\ inv'[i].pc # "authdel" /\ t \in authUsers')
                => /\ inv'[i].pc = "done"
                   /\ inv'[i].status = 500
                   /\ ~inv'[i].success
                   /\ UNCHANGED stores
                   /\ \A c \in Collections : ~HasDoc(c, t)']_vars

C23_Witness ==
    \E i \in Slots :
        /\ inv[i].pc = "done"
        /\ inv[i].status = 500
        /\ inv[i].backendFailed
        /\ inv[i].deleted = Collections
        /\ inv[i].body.userId \in authUsers
        /\ \A c \in Collections : ~HasDoc(c, inv[i].body.userId)

\* C24: every snapshot delivered to the listener invalidates the cache key
\* once and shows one toast for each document that is new in the result of
\* the pending query, none for a modified or removed document and none
\* twice; between snapshots nothing is shown and nothing invalidated.
C24_ToastPerNewPendingRequest ==
    [][/\ sub'.invalidations = (IF sub'.snapshots # sub.snapshots /\ sub'.active
                                THEN sub.invalidations + 1
                                ELSE IF sub'.active THEN sub.invalidations ELSE 0)
       /\ (sub.active /\ sub'.active)
             => \A u \in Uid :
                   sub'.toasts[u] = sub.toasts[u]
                       + (IF u \in sub'.seen \ sub.seen THEN 1 ELSE 0)
       /\ sub'.active => sub'.invalidations = sub'.snapshots]_vars

C24_Witness ==
    \E u, v \in Uid :
        /\ u # v
        /\ sub.active
        /\ sub.snapshots = 3
        /\ sub.invalidations = 3
        /\ sub.toasts[u] = 1
        /\ sub.toasts[v] = 1
        /\ sub.seen = {v}
        /\ admin_requests[u].status = "approved"

\* C25: under every interleaving of the auth-state callbacks, the role
\* lookups and signOut, isAdmin is never true while user is null.
C25_NoAdminWithoutUser ==
    ctx.user = None => ~ctx.isAdmin

\* C26: isLoading starts true and never becomes true again, it becomes false
\* only when an auth-state callback finishes, and whenever isLoading is
\* false and user is an identity whose role is admin or super_admin (and no
\* role lookup has failed), isAdmin is true.
C26_LoadingCoversLookup ==
    /\ [][~ctx.isLoading => ~ctx'.isLoading]_vars
    /\ [][(ctx.isLoading /\ ~ctx'.isLoading)
             => (ctx'.lookups # ctx.lookups \/ ctx.currentUser = None)]_vars
    /\ []( ( /\ ~ctx.isLoading
             /\ ctx.user # None
             /\ IsAdminRole(user_roles[ctx.user].role)
             /\ ~ctx.lookupFailed )
           => ctx.isAdmin )

\* C27: in every reachable state no identity holds a role assignment of
\* admin or super_admin together with an admin request of status pending.
C27_NoAdminWithPendingRequest ==
    \A u \in Uid :
        ~(IsAdminRole(user_roles[u].role) /\ admin_requests[u].status = "pending")

\* C28: no step of the delete-user endpoint takes the stores from a state
\* with an admin or super_admin role assignment to a state with none.
C28_AnAdminRemains ==
    [][AdminExists(user_roles) => AdminExists(user_roles')]_vars

\* C29: no gallery_images document references an album whose document is
\* gone, in every state reached by interleaving deleteGalleryAlbum with
\* createGalleryImage calls; and a deleteGalleryAlbum call in which a child
\* image deletion failed does not delete the album document.
C29_NoImageOfDeletedAlbum ==
    /\ [](\A d \in gallery_images : d.albumId \in {b.id : b \in gallery_albums})
    /\ [][\A a \in DocId :
             (gd[a].pc = "error" /\ a \in {b.id : b \in gallery_albums})
             => a \in {b.id : b \in gallery_albums'}]_vars

\* the ids whose deleteUserAccount call did not succeed, in the order of ids
ErrorsOf(ids, outcomes) ==
    LET failing == SelectSeq([i \in 1..Len(ids) |-> i], LAMBDA i : ~outcomes[i])
    IN  [k \in 1..Len(failing) |-> ids[failing[k]]]

\* the role, request and profile documents of x are those of the stores st
DocsAsIn(x, st) ==
    /\ (x \in users) = (x \in st.users)
    /\ user_roles[x] = st.user_roles[x]
    /\ admin_requests[x] = st.admin_requests[x]

DocsGone(x) == x \notin users /\ user_roles[x] = NoRole /\ admin_requests[x] = NoRequest

\* C30: when batchDeleteUsers(userIds, R) returns, every id has been
\* processed, the errors are the ids whose deletion did not succeed in list
\* order, deletedCount + errors.length = userIds.length and success holds
\* exactly when errors is empty; if R was not an admin no document has changed
\* and every id is an error; if R was an admin and is in the list, R is an
\* error and keeps its documents, while every other id's role, request and
\* profile documents are gone unless its own deletion was reported as an
\* error, which happens only when a backend call rejected.
C30_BatchDeleteReport ==
    bd.pc = "done" =>
        LET R == bd.requestingUserId
            ids == bd.userIds
        IN  /\ Len(bd.outcomes) = Len(ids)
            /\ bd.errors = ErrorsOf(ids, bd.outcomes)
            /\ bd.deletedCount + Len(bd.errors) = Len(ids)
            /\ bd.success <=> (bd.errors = <<>>)
            /\ ~bd.wasAdmin => /\ \A x \in Uid : DocsAsIn(x, bd.before)
                               /\ bd.errors = ids
            /\ (bd.wasAdmin /\ R \in Elements(ids))
                  => /\ R \in Elements(bd.errors)
                     /\ DocsAsIn(R, bd.before)
                     /\ \A x \in Elements(ids) \ {R} :
                           (x \notin Elements(bd.errors) \/ ~bd.failed) => DocsGone(x)
                     /\ ~bd.failed => Elements(bd.errors) = {R}

\* an admin's batch names itself first and another account second: the first
\* id is reported, the loop goes on and the second account's documents go
C30_Witness ==
    /\ bd.pc = "done"
    /\ bd.wasAdmin
    /\ Len(bd.userIds) = 2
    /\ bd.userIds[1] = bd.requestingUserId
    /\ bd.userIds[2] # bd.requestingUserId
    /\ bd.userIds[2] \in bd.before.users
    /\ bd.errors = <<bd.requestingUserId>>
    /\ bd.deletedCount = 1
    /\ ~bd.success
    /\ DocsGone(bd.userIds[2])

====
